---- MODULE Spec2Model ----
(***************************************************************************)
(* growi-plugin-frontmatter-viewer: the front-matter parser, the document  *)
(* fetcher, the navigation monitor and the panel controller, as state      *)
(* machines.  Strings are TLA+ strings; indices into arrays of lines are   *)
(* 0-based as in the source.                                               *)
(***************************************************************************)
EXTENDS Integers, Sequences, FiniteSets, Bags, TLC

(***************************************************************************)
(* JavaScript string primitives used by the source.                        *)
(***************************************************************************)

\* s.charAt(i), i 0-based ("" out of range)
charAt(s, i) == IF i >= 0 /\ i < Len(s) THEN SubSeq(s, i + 1, i + 1) ELSE ""

\* s.slice(from, to) for 0 <= from, to (clamped)
slice(s, from, to) ==
  LET t == IF to > Len(s) THEN Len(s) ELSE to
  IN IF from >= t THEN "" ELSE SubSeq(s, from + 1, t)

\* the white space String.prototype.trim removes, within the model's alphabet
IsSpace(c) == c \in {" ", "\t", "\n", "\r"}

RECURSIVE trimStart(_)
trimStart(s) ==
  IF s # "" /\ IsSpace(Head(s)) THEN trimStart(Tail(s)) ELSE s

RECURSIVE trimEnd(_)
trimEnd(s) ==
  IF s # "" /\ IsSpace(charAt(s, Len(s) - 1))
  THEN trimEnd(slice(s, 0, Len(s) - 1)) ELSE s

trim(s) == trimEnd(trimStart(s))

startsWith(s, p) == Len(s) >= Len(p) /\ slice(s, 0, Len(p)) = p

endsWith(s, p) == Len(s) >= Len(p) /\ slice(s, Len(s) - Len(p), Len(s)) = p

\* s.indexOf(c) for a one-character c: 0-based, -1 when absent
RECURSIVE indexOfFrom(_, _, _)
indexOfFrom(s, c, i) ==
  IF i >= Len(s) THEN -1
  ELSE IF charAt(s, i) = c THEN i ELSE indexOfFrom(s, c, i + 1)

indexOf(s, c) == indexOfFrom(s, c, 0)

\* s.split(c) for a one-character separator: never empty, [""] for ""
RECURSIVE split(_, _)
split(s, c) ==
  LET k == indexOf(s, c)
  IN IF k = -1 THEN <<s>>
     ELSE <<slice(s, 0, k)>> \o split(slice(s, k + 1, Len(s)), c)

IsQuote(c) == c \in {"'", "\""}

\* s.replace(/^['"]|['"]$/g, ''): a quote at the start is removed and a quote
\* at the end is removed, each on its own
stripQuotes(s) ==
  LET a == IF s # "" /\ IsQuote(Head(s)) THEN Tail(s) ELSE s
  IN IF a # "" /\ IsQuote(charAt(a, Len(a) - 1))
     THEN slice(a, 0, Len(a) - 1) ELSE a

IsDigit(c) == c \in {"0", "1", "2", "3", "4", "5", "6", "7", "8", "9"}

RECURSIVE AllDigits(_)
AllDigits(s) == s = "" \/ (IsDigit(Head(s)) /\ AllDigits(Tail(s)))

\* \d+(\.\d+)? matches the whole of u, whose first "." is at d (-1: none)
IsDecimal(u, d) ==
  IF d = -1 THEN u # "" /\ AllDigits(u)
  ELSE /\ d > 0 /\ AllDigits(slice(u, 0, d))
       /\ d + 1 < Len(u) /\ AllDigits(slice(u, d + 1, Len(u)))

unsigned(s) == IF s # "" /\ Head(s) = "-" THEN Tail(s) ELSE s

\* /^-?\d+(\.\d+)?$/.test(s)
IsNumberToken(s) == IsDecimal(unsigned(s), indexOf(unsigned(s), "."))

RECURSIVE dropLeadingZeros(_)
dropLeadingZeros(s) ==
  IF Len(s) > 1 /\ Head(s) = "0" THEN dropLeadingZeros(Tail(s)) ELSE s

RECURSIVE dropTrailingZeros(_)
dropTrailingZeros(s) ==
  IF s # "" /\ charAt(s, Len(s) - 1) = "0"
  THEN dropTrailingZeros(slice(s, 0, Len(s) - 1)) ELSE s

\* the number with integer digits ip and fraction digits fp, in normal form
\* (007 = 7, 1.50 = 1.5, -0 = 0)
numberOf(neg, ip, fp) ==
  [t |-> "number", neg |-> neg /\ ~(ip = "0" /\ fp = ""), int |-> ip, frac |-> fp]

decimalOf(neg, u, d) ==
  IF d = -1 THEN numberOf(neg, dropLeadingZeros(u), "")
  ELSE numberOf(neg, dropLeadingZeros(slice(u, 0, d)),
                dropTrailingZeros(slice(u, d + 1, Len(u))))

\* Number(s) for a token of IsNumberToken
Number(s) == decimalOf(s # "" /\ Head(s) = "-", unsigned(s), indexOf(unsigned(s), "."))

(***************************************************************************)
(* parseFrontmatter.ts: values, the YAML block parser and the extractor.    *)
(* A Mapping (a JavaScript object) is the sequence of its [k, v] entries in *)
(* the order Object.keys and Object.entries enumerate them.                 *)
(***************************************************************************)

\* null (of a reference, a result or a value) and undefined
NULL == [t |-> "null"]
Undefined == [t |-> "undefined"]

JsBool(b) == [t |-> "boolean", b |-> b]
JsString(s) == [t |-> "string", s |-> s]
JsList(items) == [t |-> "list", items |-> items]
JsObject(entries) == [t |-> "object", entries |-> entries]

DigitValue(c) ==
  CASE c = "0" -> 0 [] c = "1" -> 1 [] c = "2" -> 2 [] c = "3" -> 3 [] c = "4" -> 4
    [] c = "5" -> 5 [] c = "6" -> 6 [] c = "7" -> 7 [] c = "8" -> 8 [] OTHER -> 9

\* a < b for strings of digits of one length
RECURSIVE digitsBelow(_, _)
digitsBelow(a, b) ==
  IF a = "" THEN FALSE
  ELSE IF Head(a) # Head(b) THEN DigitValue(Head(a)) < DigitValue(Head(b))
  ELSE digitsBelow(Tail(a), Tail(b))

\* a < b for array indices
indexBelow(a, b) == Len(a) < Len(b) \/ (Len(a) = Len(b) /\ digitsBelow(a, b))

\* the property name is an array index: the canonical numeral of an integer
\* from 0 to 2^32 - 2
IsArrayIndex(key) ==
  /\ key # "" /\ AllDigits(key)
  /\ key = "0" \/ Head(key) # "0"
  /\ Len(key) < 10 \/ (Len(key) = 10 /\ ~digitsBelow("4294967294", key))

\* the entries with e put before the n-th of them
insertBefore(entries, n, e) ==
  SubSeq(entries, 1, n - 1) \o <<e>> \o SubSeq(entries, n, Len(entries))

\* how many of the entries are enumerated before the new array index key
indicesBelow(entries, key) ==
  Cardinality({n \in 1..Len(entries) :
                 IsArrayIndex(entries[n].k) /\ indexBelow(entries[n].k, key)})

\* result[key] = value, for a key other than __proto__, on the entries in
\* the order Object.keys and Object.entries give them: array indices in
\* ascending order, then the other keys in the order of their creation
setKey(entries, key, value) ==
  IF \E n \in 1..Len(entries) : entries[n].k = key
  THEN [n \in 1..Len(entries) |->
          IF entries[n].k = key THEN [k |-> key, v |-> value] ELSE entries[n]]
  ELSE IF IsArrayIndex(key)
  THEN insertBefore(entries, indicesBelow(entries, key) + 1, [k |-> key, v |-> value])
  ELSE Append(entries, [k |-> key, v |-> value])

\* value starts with q and ends with q
quotedBy(value, q) == startsWith(value, q) /\ endsWith(value, q)

parseScalar(value) ==
  IF value = "true" THEN JsBool(TRUE)
  ELSE IF value = "false" THEN JsBool(FALSE)
  ELSE IF value = "null" \/ value = "~" THEN NULL
  ELSE IF IsNumberToken(value) THEN Number(value)
  ELSE IF quotedBy(value, "\"") \/ quotedBy(value, "'")
       THEN JsString(slice(value, 1, Len(value) - 1))
  ELSE JsString(value)

getIndent(line) == Len(line) - Len(trimStart(line))

\* parts.map(s => s.trim().replace(/^['"]|['"]$/g, ''))
listItems(parts) == [n \in 1..Len(parts) |-> stripQuotes(trim(parts[n]))]

\* rawValue.slice(1, -1).split(',').map(...)
inlineList(rawValue) == listItems(split(slice(rawValue, 1, Len(rawValue) - 1), ","))

\* while (i < lines.length && !lines[i].trim()) i++
RECURSIVE skipBlank(_, _)
skipBlank(lines, i) ==
  IF i < Len(lines) /\ trim(lines[i + 1]) = "" THEN skipBlank(lines, i + 1) ELSE i

\* the block-list loop, lines 114-127: [value, i], the list and the index of
\* the next line
RECURSIVE blockList(_, _, _, _)

\* one turn of it, lt the line trimmed
blockListLine(lines, i, childIndent, list, lt) ==
  IF lt = "" THEN blockList(lines, i + 1, childIndent, list)
  ELSE IF getIndent(lines[i + 1]) < childIndent THEN [value |-> JsList(list), i |-> i]
  ELSE IF startsWith(lt, "- ")
       THEN blockList(lines, i + 1, childIndent,
                      Append(list, stripQuotes(trim(slice(lt, 2, Len(lt))))))
  ELSE [value |-> JsList(list), i |-> i]

blockList(lines, i, childIndent, list) ==
  IF i >= Len(lines) THEN [value |-> JsList(list), i |-> i]
  ELSE blockListLine(lines, i, childIndent, list, trim(lines[i + 1]))

\* the while loop of parseYamlBlock from index i with the entries so far:
\* [result, i], the Mapping and the index of the next line
RECURSIVE parseYamlLoop(_, _, _, _)

\* const nested = parseYamlBlock(...): result[key] = nested.result, i = nested.endIdx
nestedMapping(r) == [value |-> JsObject(r.result), i |-> r.i]

\* result[key] = child.value, and on from the line after the child
withChild(lines, baseIndent, result, key, child) ==
  parseYamlLoop(lines, child.i, baseIndent, setKey(result, key, child.value))

\* lines 102-133: the value is empty and the next line that is not blank is j,
\* indented by childIndent
childOf(lines, baseIndent, result, key, j, childIndent) ==
  IF j >= Len(lines) \/ childIndent <= baseIndent
  THEN parseYamlLoop(lines, j, baseIndent, setKey(result, key, NULL))
  ELSE IF startsWith(trim(lines[j + 1]), "- ")
  THEN withChild(lines, baseIndent, result, key, blockList(lines, j, childIndent, <<>>))
  ELSE withChild(lines, baseIndent, result, key,
                 nestedMapping(parseYamlLoop(lines, j, childIndent, <<>>)))

nextLine(lines, baseIndent, result, key, j) ==
  childOf(lines, baseIndent, result, key, j,
          IF j >= Len(lines) THEN 0 ELSE getIndent(lines[j + 1]))

\* lines 84-134: the entry key: rawValue at line i
entry(lines, i, baseIndent, result, key, rawValue) ==
  IF rawValue # ""
  THEN parseYamlLoop(lines, i + 1, baseIndent,
         setKey(result, key,
                IF startsWith(rawValue, "[") /\ endsWith(rawValue, "]")
                THEN JsList(inlineList(rawValue))
                ELSE parseScalar(rawValue)))
  ELSE nextLine(lines, baseIndent, result, key, skipBlank(lines, i + 1))

\* lines 78-82: the line at the block's indent, its first colon at colonIdx
keyed(lines, i, baseIndent, result, trimmed, colonIdx) ==
  IF colonIdx = -1 THEN parseYamlLoop(lines, i + 1, baseIndent, result)
  ELSE entry(lines, i, baseIndent, result, trim(slice(trimmed, 0, colonIdx)),
             trim(slice(trimmed, colonIdx + 1, Len(trimmed))))

\* lines 65-78: one line, trimmed
oneLine(lines, i, baseIndent, result, trimmed, indent) ==
  IF trimmed = "" \/ startsWith(trimmed, "#")
  THEN parseYamlLoop(lines, i + 1, baseIndent, result)
  ELSE IF indent < baseIndent THEN [result |-> result, i |-> i]
  ELSE IF indent > baseIndent THEN parseYamlLoop(lines, i + 1, baseIndent, result)
  ELSE keyed(lines, i, baseIndent, result, trimmed, indexOf(trimmed, ":"))

parseYamlLoop(lines, i, baseIndent, result) ==
  IF i >= Len(lines) THEN [result |-> result, i |-> i]
  ELSE oneLine(lines, i, baseIndent, result, trim(lines[i + 1]), getIndent(lines[i + 1]))

parseYamlBlock(lines, startIdx, baseIndent) ==
  parseYamlLoop(lines, startIdx, baseIndent, <<>>)

parseSimpleYaml(yaml) == parseYamlBlock(split(yaml, "\n"), 0, 0).result

\* /\r?\n---/ matched at 0-based position p of s
closesAt(s, p) ==
  \/ slice(s, p, p + 5) = "\r\n---"
  \/ slice(s, p, p + 4) = "\n---"

\* the lazy ([\s\S]*?): the first position at or after p where the closing
\* marker matches, -1 when there is none
RECURSIVE firstClose(_, _)
firstClose(s, p) ==
  IF p >= Len(s) THEN -1
  ELSE IF closesAt(s, p) THEN p ELSE firstClose(s, p + 1)

\* /^---\r?\n/ matched at the start of s: the length of the match, -1 for none
opensWith(s) ==
  IF slice(s, 0, 5) = "---\r\n" THEN 5
  ELSE IF slice(s, 0, 4) = "---\n" THEN 4 ELSE -1

\* const rawYaml = match[1].trim(); return { rawYaml, data: parseSimpleYaml(rawYaml) }
ParsedFrontmatter(rawYaml) ==
  [t |-> "parsed", rawYaml |-> rawYaml, data |-> parseSimpleYaml(rawYaml)]

matched(markdown, open, close) ==
  IF close = -1 THEN NULL ELSE ParsedFrontmatter(trim(slice(markdown, open, close)))

\* markdown.match(/^---\r?\n([\s\S]*?)\r?\n---/): ParsedFrontmatter or null
extractFrontmatter(markdown) ==
  IF opensWith(markdown) = -1 THEN NULL
  ELSE matched(markdown, opensWith(markdown), firstClose(markdown, opensWith(markdown)))

(***************************************************************************)
(* parseFrontmatter.ts: the document fetcher.  The network is a function    *)
(* from the requests of one call, in order, to the responses they get.      *)
(***************************************************************************)

API_PREFIXES == <<"/_api/v3", "/api/v3">>

HexChars ==
  {"0", "1", "2", "3", "4", "5", "6", "7", "8", "9",
   "a", "b", "c", "d", "e", "f", "A", "B", "C", "D", "E", "F"}

Letters ==
  {"g", "h", "i", "j", "k", "l", "m", "n", "o", "p", "q", "r", "s", "t", "u",
   "v", "w", "x", "y", "z", "G", "H", "I", "J", "K", "L", "M", "N", "O", "P",
   "Q", "R", "S", "T", "U", "V", "W", "X", "Y", "Z"}

\* the characters encodeURIComponent leaves alone
IsUnreserved(c) ==
  c \in HexChars \cup Letters \cup {"-", "_", ".", "!", "~", "*", "'", "(", ")"}

\* the escapes of the other characters of the model's alphabet
percentEscape(c) ==
  CASE c = "/" -> "%2F" [] c = "?" -> "%3F" [] c = "=" -> "%3D"
    [] c = "&" -> "%26" [] c = " " -> "%20" [] c = ":" -> "%3A"
    [] c = "#" -> "%23" [] OTHER -> "%25"

RECURSIVE encodeURIComponent(_)
encodeURIComponent(s) ==
  IF s = "" THEN ""
  ELSE (IF IsUnreserved(Head(s)) THEN Head(s) ELSE percentEscape(Head(s)))
       \o encodeURIComponent(Tail(s))

\* a value is falsy: undefined, null or the empty string
Falsy(v) == v.t \in {"undefined", "null"} \/ (v.t = "string" /\ v.s = "")

\* a ?? b
Coalesce(a, b) == IF a.t \in {"undefined", "null"} THEN b ELSE a

\* fetchJson(url) on the response resp: [thrown, value]
fetchJson(resp) ==
  IF resp.kind = "reject" THEN [thrown |-> TRUE, value |-> NULL]
  ELSE IF resp.kind = "status" THEN [thrown |-> FALSE, value |-> NULL]
  ELSE IF resp.kind = "nonjson" THEN [thrown |-> FALSE, value |-> NULL]
  ELSE IF resp.kind = "badjson" THEN [thrown |-> TRUE, value |-> NULL]
  ELSE [thrown |-> FALSE, value |-> resp.json]

\* pageBodyOf taking a body from whichever of the two places holds a
\* non-empty one (|| in place of ??)
pageBodyOf_either(json) ==
  IF json.t # "json" THEN JsString("")
  ELSE IF ~Falsy(json.page) THEN json.page
  ELSE IF ~Falsy(json.dataPage) THEN json.dataPage
  ELSE JsString("")

\* json?.page?.revision?.body ?? json?.data?.page?.revision?.body ?? ''
pageBodyOf(json) ==
  IF json.t # "json" THEN JsString("")
  ELSE Coalesce(json.page, Coalesce(json.dataPage, JsString("")))

\* json?.revision?.body ?? ''
revisionBodyOf(json) ==
  IF json.t # "json" THEN JsString("")
  ELSE Coalesce(json.revision, JsString(""))

pageUrl(prefix, pageId) ==
  prefix \o "/page?pageId=" \o encodeURIComponent(pageId)

revisionUrl(prefix, pageId, revisionId) ==
  prefix \o "/revisions/" \o encodeURIComponent(revisionId)
         \o "?pageId=" \o encodeURIComponent(pageId)

\* the loop of fetchRevisionBody from prefix n (1-based) on:
\* [body, requests], body null when no prefix gives one
RECURSIVE fetchRevisionLoop(_, _, _, _, _)

\* const body = json?.revision?.body ?? ''; if (body) return body
revisionBodyFound(n, pageId, revisionId, resp, asked, body) ==
  IF ~Falsy(body) THEN [body |-> body, requests |-> asked]
  ELSE fetchRevisionLoop(n + 1, pageId, revisionId, resp, asked)

\* try { const json = await fetchJson(url) ... } catch { /* next prefix */ }
revisionAnswered(n, pageId, revisionId, resp, asked, got) ==
  IF got.thrown THEN fetchRevisionLoop(n + 1, pageId, revisionId, resp, asked)
  ELSE revisionBodyFound(n, pageId, revisionId, resp, asked, revisionBodyOf(got.value))

fetchRevisionLoop(n, pageId, revisionId, resp, requests) ==
  IF n > Len(API_PREFIXES) THEN [body |-> NULL, requests |-> requests]
  ELSE revisionAnswered(n, pageId, revisionId, resp,
                        Append(requests, revisionUrl(API_PREFIXES[n], pageId, revisionId)),
                        fetchJson(resp[n]))

fetchRevisionBody(pageId, revisionId, resp) ==
  fetchRevisionLoop(1, pageId, revisionId, resp, <<>>)

\* the loop of fetchPageFrontmatter from prefix n (1-based) on:
\* [outcome, value, requests]
RECURSIVE fetchPageLoop(_, _, _, _)

\* if (body) return extractFrontmatter(body): extractFrontmatter throws on a
\* body that is no string, inside the try
pageBodyFound(n, pageId, resp, asked, body) ==
  IF Falsy(body) THEN fetchPageLoop(n + 1, pageId, resp, asked)
  ELSE IF body.t # "string" THEN fetchPageLoop(n + 1, pageId, resp, asked)
  ELSE [outcome |-> "resolved", value |-> extractFrontmatter(body.s),
        requests |-> asked]

\* pageAnswered without the catch of line 232: what fetchJson throws leaves
\* fetchPageFrontmatter
pageAnswered_uncaught(n, pageId, resp, asked, got) ==
  IF got.thrown THEN [outcome |-> "rejected", value |-> NULL, requests |-> asked]
  ELSE pageBodyFound(n, pageId, resp, asked, pageBodyOf(got.value))

\* try { const json = await fetchJson(url) ... } catch { /* next prefix */ }
pageAnswered(n, pageId, resp, asked, got) ==
  IF got.thrown THEN fetchPageLoop(n + 1, pageId, resp, asked)
  ELSE pageBodyFound(n, pageId, resp, asked, pageBodyOf(got.value))

fetchPageLoop(n, pageId, resp, requests) ==
  IF n > Len(API_PREFIXES)
  THEN [outcome |-> "resolved", value |-> NULL, requests |-> requests]
  ELSE pageAnswered(n, pageId, resp, Append(requests, pageUrl(API_PREFIXES[n], pageId)),
                    fetchJson(resp[n]))

\* lines 209-213: const body = await fetchRevisionBody(...); null for null,
\* else extractFrontmatter(body), outside any try
revisionFrontmatter(rev) ==
  IF rev.body.t = "null"
  THEN [outcome |-> "resolved", value |-> NULL, requests |-> rev.requests]
  ELSE IF rev.body.t # "string"
  THEN [outcome |-> "rejected", value |-> NULL, requests |-> rev.requests]
  ELSE [outcome |-> "resolved", value |-> extractFrontmatter(rev.body.s),
        requests |-> rev.requests]

\* lines 205-237, for pageId = pathname.replace(/^\//, '')
frontmatterOf(pageId, revisionId, resp) ==
  IF pageId = ""
  THEN [outcome |-> "resolved", value |-> NULL, requests |-> <<>>]
  ELSE IF ~Falsy(revisionId)
  THEN revisionFrontmatter(fetchRevisionBody(pageId, revisionId.s, resp))
  ELSE fetchPageLoop(1, pageId, resp, <<>>)

\* fetchPageFrontmatter(pathname, revisionId) when the n-th request of the
\* call gets the response resp[n]: [outcome, value, requests]
fetchPageFrontmatter(pathname, revisionId, resp) ==
  frontmatterOf(IF pathname # "" /\ Head(pathname) = "/" THEN Tail(pathname) ELSE pathname,
                revisionId, resp)

(***************************************************************************)
(* The world of the model: addresses, documents and responses.             *)
(***************************************************************************)

MaxActivations == 1
MaxInFlight == 2
MaxSubscriptions == 2
MaxJitterMs == 3

PageA == "/6999390af17c96c558f7d57e"
PageB == "/6999390AF17C96C558F7D57F"

\* paths that miss the shape of PAGE_ID_PATTERN: too short, one character
\* short, one long, a character that is no hexadecimal digit, a second slash
OddPaths ==
  {"/abc", "/6999390af17c96c558f7d57", "/6999390af17c96c558f7d57e0",
   "/6999390af17c96c558f7d57g", "/6999390af17c96c558f7d57/"}

Paths == {PageA, PageB, "/settings"} \cup OddPaths

Searches == {"", "?revisionId=r1", "?from=/6999390af17c96c558f7d57e"}

\* the addresses the host visits: two documents, a revision of the first, and
\* a view that shows no document
Addresses ==
  {[pathname |-> PageA, search |-> ""], [pathname |-> PageA, search |-> "?revisionId=r1"],
   [pathname |-> PageB, search |-> ""], [pathname |-> "/settings", search |-> ""]}

NoAddress == [pathname |-> "", search |-> ""]

\* the addresses updatePanel is tried on: those, and the paths that miss the
\* shape, without a query and with one that holds a path of the shape
ShapeAddresses ==
  Addresses \cup {[pathname |-> p, search |-> q] :
                    p \in OddPaths, q \in {"", "?from=/6999390af17c96c558f7d57e"}}

DocHello == "---\ntitle: Hello\ntags: [a, b]\nmeta:\n  draft: true\n---\n# Page"
DocOwner == "---\r\nowner: bob\r\n---\r\ntext"
DocNoKeys == "---\n# nothing yet\n---\ntext"
DocPlain == "# Title\n\ntext"

\* what a response may carry where a body is looked for
BodyValues ==
  {Undefined, [t |-> "string", s |-> ""], [t |-> "string", s |-> DocHello],
   [t |-> "string", s |-> DocOwner],
   [t |-> "number", neg |-> FALSE, int |-> "42", frac |-> ""]}

Json(page, dataPage, revision, dataRevision) ==
  [t |-> "json", page |-> page, dataPage |-> dataPage,
   revision |-> revision, dataRevision |-> dataRevision]

FailureKinds == {"reject", "status", "nonjson", "badjson"}

Failure(kind) == [kind |-> kind, json |-> NULL]

JsonResponse(json) == [kind |-> "json", json |-> json]

\* documents without metadata: a block without keys, and no block
BodiesWithout == {[t |-> "string", s |-> DocNoKeys], [t |-> "string", s |-> DocPlain]}

\* the responses a server may give to a page request, and to a revision request
PageResponses ==
  {Failure(k) : k \in FailureKinds} \cup {JsonResponse(NULL)}
    \cup {JsonResponse(Json(a, b, Undefined, Undefined)) : a \in BodyValues, b \in BodyValues}
    \cup {JsonResponse(Json(Undefined, Undefined, a, Undefined)) : a \in BodyValues}
    \cup {JsonResponse(Json(a, Undefined, Undefined, Undefined)) : a \in BodiesWithout}

RevisionResponses ==
  {Failure(k) : k \in FailureKinds} \cup {JsonResponse(NULL)}
    \cup {JsonResponse(Json(Undefined, Undefined, a, b)) : a \in BodyValues, b \in BodyValues}
    \cup {JsonResponse(Json(a, Undefined, Undefined, Undefined)) : a \in BodyValues}
    \cup {JsonResponse(Json(Undefined, Undefined, a, Undefined)) : a \in BodiesWithout}

ResponsesFor(revisionId) ==
  IF Falsy(revisionId) THEN PageResponses ELSE RevisionResponses

\* the responses the controller's fetches get: a failure of each kind, or a
\* document in one envelope
ControllerBodies ==
  {[t |-> "string", s |-> DocHello], [t |-> "string", s |-> DocNoKeys],
   [t |-> "string", s |-> DocPlain]}

ControllerResponses ==
  {Failure(k) : k \in FailureKinds}
    \cup {JsonResponse(Json(a, Undefined, Undefined, Undefined)) : a \in ControllerBodies}
    \cup {JsonResponse(Json(Undefined, Undefined, a, Undefined)) : a \in ControllerBodies}

(***************************************************************************)
(* client-entry.tsx: the controller.                                        *)
(***************************************************************************)

VARIABLES
  facade,            \* window.growiFacade is present
  location,          \* window.location: [pathname, search]
  sidebar,           \* the document holds an element one of SIDEBAR_SELECTORS finds
  docPanel,          \* the document holds the element with id PANEL_MOUNT_ID
  mountTarget,       \* NULL or the wrapper element
  display,           \* mountTarget.style.display
  root,              \* NULL or the React root
  rendered,          \* what the root renders: NULL or [of, rawYaml, data], of the fetch it came from
  cleanupUrlWatch,   \* NULL or the detachment operation of a subscription
  subs,              \* the subscriptions made: [currentHref, origPush, origReplace]
  pushState,         \* history.pushState: the wrappers around the native one, outermost first
  replaceState,      \* history.replaceState, likewise
  popstateListeners, \* the popstate listeners, in order of registration
  microtasks,        \* the then-callbacks of waitForPageId() not yet run: [pathname, search],
                     \* the path each will get and the query of the address when it was made
  inflight,          \* the updatePanel calls awaiting fetchPageFrontmatter (a bag)
  lastActed,         \* the address of the most recent navigation acted on
  phase,             \* "idle", "started" (activate ran) or "stopped" (deactivate ran)
  ev,                \* the monitor's last step: [kind, sub, cb]
  fpc,               \* one updatePanel call: "start", "awaiting", "settled", "done"
  fresp,             \* the responses its requests got
  fout,              \* what its fetchPageFrontmatter came to
  wpc,               \* one waitForPageId call: "idle", "sleeping", "returned"
  now,               \* Date.now()
  deadline,          \* its deadline
  wvalue,            \* what it returned
  polls,             \* the turns of its loop
  earlier,           \* the paths its earlier turns saw
  pin,               \* the text handed to the parser: [kind, text]
  ppc,               \* the parser's position: "start", "loop", "list", "returned"
  prawYaml,          \* rawYaml of extractFrontmatter
  plines,            \* lines
  pi,                \* i, the index of the next line
  pstack,            \* the parseYamlBlock calls under way, the innermost last
  plist,             \* the block list under construction
  pout               \* what the call returned

domVars == <<docPanel, mountTarget, display, root, rendered>>

monitorVars == <<cleanupUrlWatch, subs, pushState, replaceState, popstateListeners>>

fetchVars == <<fpc, fresp, fout>>

waitVars == <<wpc, now, deadline, wvalue, polls, earlier>>

parseVars == <<pin, ppc, prawYaml, plines, pi, pstack, plist, pout>>

\* what the parser leaves alone
hostVars ==
  <<facade, location, sidebar, domVars, monitorVars, microtasks, inflight,
    lastActed, phase, ev, fetchVars, waitVars>>

vars ==
  <<facade, location, sidebar, domVars, monitorVars, microtasks, inflight,
    lastActed, phase, ev, fetchVars, waitVars, parseVars>>

Wrapper == [t |-> "element"]
TheRoot == [t |-> "root"]

\* PAGE_ID_PATTERN without the $ that ends it
PAGE_ID_PATTERN_unanchored(pathname) ==
  /\ Len(pathname) >= 25
  /\ charAt(pathname, 0) = "/"
  /\ \A i \in 1..24 : charAt(pathname, i) \in HexChars

\* /^\/[0-9a-f]{24}$/i .test(pathname)
PAGE_ID_PATTERN(pathname) ==
  /\ Len(pathname) = 25
  /\ charAt(pathname, 0) = "/"
  /\ \A i \in 1..24 : charAt(pathname, i) \in HexChars

\* PAGE_ID_PATTERN.test on the paths of the model, computed once
PageIdTable == [p \in Paths |-> PAGE_ID_PATTERN(p)]

IsPageId(pathname) == PageIdTable[pathname]

\* the pair name=value (or name alone), its first "=" at e (-1: none)
pairName(pair, e) == IF e = -1 THEN pair ELSE slice(pair, 0, e)

pairValue(pair, e) == IF e = -1 THEN "" ELSE slice(pair, e + 1, Len(pair))

\* new URLSearchParams(search).get(name): the value of the first pair of that
\* name, null when there is none
RECURSIVE firstPair(_, _)
firstPair(pairs, name) ==
  IF pairs = <<>> THEN NULL
  ELSE IF Head(pairs) # "" /\ pairName(Head(pairs), indexOf(Head(pairs), "=")) = name
  THEN JsString(pairValue(Head(pairs), indexOf(Head(pairs), "=")))
  ELSE firstPair(Tail(pairs), name)

searchParamsGet(search, name) ==
  firstPair(split(IF search # "" /\ Head(search) = "?" THEN Tail(search) ELSE search, "&"),
            name)

\* new URLSearchParams(window.location.search).get('revisionId') ?? undefined
revisionIdOf(search) == Coalesce(searchParamsGet(search, "revisionId"), Undefined)

\* the same on the queries of the model, computed once
RevisionIdTable == [q \in Searches |-> revisionIdOf(q)]

RevisionIds == {RevisionIdTable[q] : q \in Searches}

href(loc) == loc.pathname \o loc.search

\* the module's globals and the panel's part of the document, as one value
Globals ==
  [mountTarget |-> mountTarget, root |-> root, docPanel |-> docPanel,
   display |-> display, rendered |-> rendered]

SetGlobals(g) ==
  /\ mountTarget' = g.mountTarget
  /\ root' = g.root
  /\ docPanel' = g.docPanel
  /\ display' = g.display
  /\ rendered' = g.rendered

\* the panel shows metadata
PanelVisible ==
  mountTarget # NULL /\ docPanel /\ display = "" /\ rendered # NULL

\* if (mountTarget) mountTarget.style.display = 'none'
hidePanel(g) ==
  IF g.mountTarget # NULL THEN [g EXCEPT !.display = "none"] ELSE g

\* findOrCreateMountTarget() on the globals g
findOrCreateMountTarget(g, hasSidebar) ==
  IF g.docPanel THEN [g EXCEPT !.mountTarget = Wrapper]
  ELSE IF ~hasSidebar THEN [g EXCEPT !.mountTarget = NULL]
  ELSE [g EXCEPT !.mountTarget = Wrapper, !.docPanel = TRUE,
                 !.display = "", !.rendered = NULL]

\* lines 80-83: a mountTarget that left the document is forgotten, with its root
dropDetached(g) ==
  IF g.mountTarget # NULL /\ ~g.docPanel
  THEN [g EXCEPT !.mountTarget = NULL, !.root = NULL, !.display = "", !.rendered = NULL]
  ELSE g

\* lines 85-88: if (!mountTarget) mountTarget = findOrCreateMountTarget()
ensureMountTarget(g, hasSidebar) ==
  IF g.mountTarget = NULL THEN findOrCreateMountTarget(g, hasSidebar) ELSE g

\* lines 87-102: return without a mountTarget; else the root is made if there
\* is none, the panel shown and the block rendered
renderPanel(g, parsed, task) ==
  IF g.mountTarget = NULL THEN g
  ELSE [g EXCEPT !.root = TheRoot, !.display = "",
                 !.rendered = [of |-> task, rawYaml |-> parsed.rawYaml,
                               data |-> parsed.data]]

\* updatePanelResume without the test of the number of keys of line 71
updatePanelResume_keysUnchecked(g, hasSidebar, out, task) ==
  IF out.outcome = "rejected" THEN g
  ELSE IF out.value = NULL THEN hidePanel(g)
  ELSE renderPanel(ensureMountTarget(dropDetached(g), hasSidebar), out.value, task)

\* updatePanelResume with lines 80-88 before the test of line 71: the mount
\* target is looked for before the result is looked at
updatePanelResume_mountFirst(g, hasSidebar, out, task) ==
  IF out.outcome = "rejected" THEN g
  ELSE IF out.value = NULL \/ Len(out.value.data) = 0
  THEN hidePanel(ensureMountTarget(dropDetached(g), hasSidebar))
  ELSE renderPanel(ensureMountTarget(dropDetached(g), hasSidebar), out.value, task)

\* updatePanel after the await, lines 71-102, for the result out of the fetch
\* of the call whose fetch was for task = [pathname, revisionId]
updatePanelResume(g, hasSidebar, out, task) ==
  IF out.outcome = "rejected" THEN g
  ELSE IF out.value = NULL \/ Len(out.value.data) = 0 THEN hidePanel(g)
  ELSE renderPanel(ensureMountTarget(dropDetached(g), hasSidebar), out.value, task)

\* what one call of fetchPageFrontmatter can come to, over every pair of
\* responses to its requests
FetchOutcomes ==
  [p \in Paths, r \in RevisionIds |->
     {fetchPageFrontmatter(p, r, <<r1, r2>>) :
        r1 \in ControllerResponses, r2 \in ControllerResponses}]

maxWaitMs == 1500
pollMs == 50

\* waitForPageIdCheck without the test of line 125: it sleeps until the deadline
waitForPageIdCheck_untested(t, until, pathname) ==
  IF t < until
  THEN [pc |-> "sleeping", value |-> "", timedOut |-> FALSE]
  ELSE [pc |-> "returned", value |-> pathname, timedOut |-> TRUE]

\* one turn of the loop of waitForPageId at time t, the address showing
\* pathname: return it, or sleep pollMs
waitForPageIdCheck(t, until, pathname) ==
  IF t < until
  THEN IF IsPageId(pathname)
       THEN [pc |-> "returned", value |-> pathname, timedOut |-> FALSE]
       ELSE [pc |-> "sleeping", value |-> "", timedOut |-> FALSE]
  ELSE [pc |-> "returned", value |-> pathname, timedOut |-> TRUE]

\* lines 68-69: the fetch of updatePanel(pathname) for revisionId starts
updatePanelFetch(g, fl, pathname, revisionId) ==
  [g |-> g,
   inflight |-> fl (+) SetToBag({[pathname |-> pathname, revisionId |-> revisionId]})]

\* updatePanelCall without the test of lines 61-64: it fetches for any path
updatePanelCall_untested(g, fl, pathname, search) ==
  updatePanelFetch(g, fl, pathname, RevisionIdTable[search])

\* updatePanel(pathname) up to its first await, lines 58-69, for the
\* address showing search: [g, inflight]
updatePanelCall(g, fl, pathname, search) ==
  IF ~IsPageId(pathname)
  THEN [g |-> hidePanel(g), inflight |-> fl]
  ELSE updatePanelFetch(g, fl, pathname, RevisionIdTable[search])

\* lines 192-199: updatePanel(pathname) was called, to the effect u
calledUpdatePanel(st, loc, u) ==
  [st EXCEPT !.g = u.g, !.inflight = u.inflight, !.lastActed = loc, !.acted = TRUE]

\* lines 204-208: waitForPageId() was called and took its first turn w
calledWaitForPageId(st, loc, w) ==
  IF w.pc = "returned"
  THEN [st EXCEPT !.microtasks = Append(@, [pathname |-> w.value, search |-> loc.search]),
                  !.waited = TRUE, !.lastActed = loc, !.acted = TRUE]
  ELSE [st EXCEPT !.polling = TRUE, !.waited = TRUE, !.lastActed = loc, !.acted = TRUE]

\* navigationCallback without the test of line 192: it waits for every path
navigationCallback_alwaysWaits(st, loc) ==
  calledWaitForPageId(st, loc, waitForPageIdCheck(0, maxWaitMs, loc.pathname))

\* the callback activate hands to watchUrlChanges, lines 189-209, run with the
\* address loc showing, on the state st of the step so far
navigationCallback(st, loc) ==
  IF ~IsPageId(loc.pathname)
  THEN calledUpdatePanel(st, loc,
         updatePanelCall(st.g, st.inflight, loc.pathname, loc.search))
  ELSE calledWaitForPageId(st, loc, waitForPageIdCheck(0, maxWaitMs, loc.pathname))

\* handleChange without the comparison of line 145: the callback runs on
\* every operation
handleChange_always(st, s, loc) ==
  navigationCallback(
    [st EXCEPT !.subs[s].currentHref = href(loc), !.cb[s] = @ + 1], loc)

\* handleChange of subscription s, lines 143-149
handleChange(st, s, loc) ==
  IF href(loc) # st.subs[s].currentHref
  THEN navigationCallback(
         [st EXCEPT !.subs[s].currentHref = href(loc), !.cb[s] = @ + 1], loc)
  ELSE st

RECURSIVE runHandlers(_, _, _)
runHandlers(hs, st, loc) ==
  IF hs = <<>> THEN st
  ELSE runHandlers(Tail(hs), handleChange(st, Head(hs), loc), loc)

\* the handleChange calls a patched history method makes, in order: the
\* wrapper of s calls what it replaced, then its own handleChange
RECURSIVE handlersOf(_, _)
handlersOf(chain, origOf) ==
  IF chain = <<>> THEN <<>>
  ELSE handlersOf(origOf[Head(chain)], origOf) \o <<Head(chain)>>

NoCallbacks == [s \in 1..(MaxActivations + MaxSubscriptions) |-> 0]

StepState ==
  [g |-> Globals, subs |-> subs, microtasks |-> microtasks, inflight |-> inflight,
   lastActed |-> lastActed, cb |-> NoCallbacks, waited |-> FALSE,
   acted |-> FALSE, polling |-> FALSE]

Pending(st) == Len(st.microtasks) + BagCardinality(st.inflight)

\* the step that takes the address to loc and leaves the state st
Stepped(st, loc) ==
  /\ Pending(st) <= MaxInFlight
  /\ ~st.polling
  /\ location' = loc
  /\ SetGlobals(st.g)
  /\ subs' = st.subs
  /\ microtasks' = st.microtasks
  /\ inflight' = st.inflight
  /\ lastActed' = st.lastActed
  /\ UNCHANGED <<parseVars, facade, sidebar, cleanupUrlWatch, pushState, replaceState,
                 popstateListeners, phase, ev, fetchVars, waitVars>>

\* the address changes to loc and the handlers hs run
HistoryStep(hs, loc) == Stepped(runHandlers(hs, StepState, loc), loc)

origPushOf == [s \in DOMAIN subs |-> subs[s].origPush]

origReplaceOf == [s \in DOMAIN subs |-> subs[s].origReplace]

\* the host calls history.pushState(state, '', loc)
PushState ==
  \E loc \in Addresses : HistoryStep(handlersOf(pushState, origPushOf), loc)

\* the host calls history.replaceState(state, '', loc)
ReplaceState ==
  \E loc \in Addresses : HistoryStep(handlersOf(replaceState, origReplaceOf), loc)

\* the user goes back or forward: the address changes, then popstate is
\* dispatched (a task of its own: no then-callback is pending)
PopState ==
  /\ microtasks = <<>>
  /\ \E loc \in Addresses : HistoryStep(popstateListeners, loc)

\* watchUrlChanges(callback), lines 140-171: the subscription made
watchUrlChanges(loc, push, replace) ==
  [currentHref |-> href(loc), origPush |-> push, origReplace |-> replace]

\* what watchUrlChanges does to history and window for the new subscription s
install(s, h) ==
  [pushState |-> <<s>> \o h.pushState, replaceState |-> <<s>> \o h.replaceState,
   popstateListeners |-> Append(h.popstateListeners, s)]

\* detach without the removeEventListener of line 169
detach_keepListener(s, h) ==
  [pushState |-> subs[s].origPush, replaceState |-> subs[s].origReplace,
   popstateListeners |-> h.popstateListeners]

\* the detachment operation watchUrlChanges returned for s, lines 166-170
detach(s, h) ==
  [pushState |-> subs[s].origPush, replaceState |-> subs[s].origReplace,
   popstateListeners |-> SelectSeq(h.popstateListeners, LAMBDA x : x # s)]

Hooks ==
  [pushState |-> pushState, replaceState |-> replaceState,
   popstateListeners |-> popstateListeners]

SetHooks(h) ==
  /\ pushState' = h.pushState
  /\ replaceState' = h.replaceState
  /\ popstateListeners' = h.popstateListeners

\* lines 184-189: updatePanel was called, to the effect u, and the
\* subscription s is made
Activated(u, s) ==
  /\ Len(subs) < MaxActivations
  /\ Len(microtasks) + BagCardinality(u.inflight) <= MaxInFlight
  /\ SetGlobals(u.g)
  /\ inflight' = u.inflight
  /\ subs' = Append(subs, watchUrlChanges(location, pushState, replaceState))
  /\ SetHooks(install(s, Hooks))
  /\ cleanupUrlWatch' = [t |-> "cleanup", sub |-> s]
  /\ lastActed' = location
  /\ phase' = "started"
  /\ UNCHANGED <<parseVars, facade, location, sidebar, microtasks, ev, fetchVars, waitVars>>

\* activate(), lines 176-210
Activate ==
  IF ~facade
  THEN UNCHANGED vars
  ELSE Activated(updatePanelCall(Globals, inflight, location.pathname, location.search),
                 Len(subs) + 1)

\* deactivate(), lines 212-221
Deactivate ==
  /\ SetHooks(IF cleanupUrlWatch # NULL THEN detach(cleanupUrlWatch.sub, Hooks) ELSE Hooks)
  /\ cleanupUrlWatch' = NULL
  /\ SetGlobals([mountTarget |-> NULL, root |-> NULL, docPanel |-> FALSE,
                 display |-> "", rendered |-> NULL])
  /\ phase' = "stopped"
  /\ UNCHANGED <<parseVars, facade, location, sidebar, subs, microtasks, inflight, lastActed,
                 ev, fetchVars, waitVars>>

\* updatePanel ran up to its await or its return, to the effect u
Called(u) == SetGlobals(u.g) /\ inflight' = u.inflight

\* the then-callback of waitForPageId() runs: updatePanel(updatedPathname)
RunMicrotask ==
  /\ microtasks # <<>>
  /\ Called(updatePanelCall(Globals, inflight, Head(microtasks).pathname,
                            location.search))
  /\ microtasks' = Tail(microtasks)
  /\ UNCHANGED <<parseVars, facade, location, sidebar, monitorVars, lastActed, phase, ev,
                 fetchVars, waitVars>>

\* the fetch of one updatePanel call settles and the call runs to its end
FetchSettles ==
  /\ microtasks = <<>>
  /\ \E t \in BagToSet(inflight) :
       \E out \in FetchOutcomes[t.pathname, t.revisionId] :
         /\ SetGlobals(updatePanelResume(Globals, sidebar, out, t))
         /\ inflight' = inflight (-) SetToBag({t})
  /\ UNCHANGED <<parseVars, facade, location, sidebar, monitorVars, microtasks, lastActed,
                 phase, ev, fetchVars, waitVars>>

\* the host rebuilds the page: the panel's element leaves the document, a
\* sidebar may or may not be there afterwards
HostRebuildsDom ==
  /\ \E b \in BOOLEAN : sidebar' = b
  /\ docPanel' = FALSE
  /\ UNCHANGED <<parseVars, facade, location, mountTarget, display, root, rendered,
                 monitorVars, microtasks, inflight, lastActed, phase, ev,
                 fetchVars, waitVars>>

NoGlobals ==
  [mountTarget |-> NULL, root |-> NULL, docPanel |-> FALSE, display |-> "",
   rendered |-> NULL]

IdleController ==
  /\ cleanupUrlWatch = NULL
  /\ subs = <<>>
  /\ pushState = <<>>
  /\ replaceState = <<>>
  /\ popstateListeners = <<>>
  /\ microtasks = <<>>
  /\ inflight = EmptyBag
  /\ lastActed = NoAddress
  /\ phase = "idle"
  /\ ev = [kind |-> "load", sub |-> 0, cb |-> NoCallbacks, gone |-> {}]

IdleFetch == fpc = "idle" /\ fresp = <<>> /\ fout = NULL

IdleDom ==
  /\ docPanel = FALSE
  /\ mountTarget = NULL
  /\ display = ""
  /\ root = NULL
  /\ rendered = NULL

IdleWait ==
  /\ wpc = "idle"
  /\ now = 0
  /\ deadline = 0
  /\ wvalue = NULL
  /\ polls = 0
  /\ earlier = {}

\* no text has been handed to the parser
IdleParse ==
  /\ pin = [kind |-> "none", text |-> ""]
  /\ ppc = "idle"
  /\ prawYaml = ""
  /\ plines = <<>>
  /\ pi = 0
  /\ pstack = <<>>
  /\ plist = [key |-> "", childIndent |-> 0, startIdx |-> 0, items |-> <<>>]
  /\ pout = NULL

Init ==
  /\ facade \in BOOLEAN
  /\ location \in Addresses
  /\ sidebar \in BOOLEAN
  /\ IdleDom
  /\ IdleController
  /\ IdleFetch
  /\ IdleWait
  /\ IdleParse

Next ==
  \/ Activate
  \/ Deactivate
  \/ PushState
  \/ ReplaceState
  \/ PopState
  \/ RunMicrotask
  \/ FetchSettles
  \/ HostRebuildsDom

\* the plugin in its host: activate and deactivate, the host's navigation and
\* page rebuilds, and the fetches settling
Spec == Init /\ [][Next]_vars

(***************************************************************************)
(* The navigation monitor on its own: watchUrlChanges as activate and       *)
(* deactivate use it, the callback's work left out and its calls counted.   *)
(***************************************************************************)

\* activate's watchUrlChanges(...), line 189
NavWatch ==
  LET s == Len(subs) + 1
  IN /\ Len(subs) < MaxSubscriptions
     /\ subs' = Append(subs, watchUrlChanges(location, pushState, replaceState))
     /\ SetHooks(install(s, Hooks))
     /\ cleanupUrlWatch' = [t |-> "cleanup", sub |-> s]
     /\ ev' = [kind |-> "watch", sub |-> s, cb |-> NoCallbacks, gone |-> ev.gone]
     /\ UNCHANGED <<parseVars, facade, location, sidebar, domVars, microtasks, inflight,
                    lastActed, phase, fetchVars, waitVars>>

\* deactivate's cleanupUrlWatch?.(); cleanupUrlWatch = null, lines 213-214
NavDetach ==
  /\ cleanupUrlWatch # NULL
  /\ SetHooks(detach(cleanupUrlWatch.sub, Hooks))
  /\ cleanupUrlWatch' = NULL
  /\ ev' = [kind |-> "detach", sub |-> cleanupUrlWatch.sub, cb |-> NoCallbacks,
            gone |-> ev.gone \cup {cleanupUrlWatch.sub}]
  /\ UNCHANGED <<parseVars, facade, location, sidebar, domVars, subs, microtasks, inflight,
                 lastActed, phase, fetchVars, waitVars>>

NavStepped(st, loc) ==
  /\ location' = loc
  /\ subs' = st.subs
  /\ ev' = [kind |-> "history", sub |-> 0, cb |-> st.cb, gone |-> ev.gone]
  /\ UNCHANGED <<parseVars, facade, sidebar, domVars, cleanupUrlWatch, pushState,
                 replaceState, popstateListeners, microtasks, inflight,
                 lastActed, phase, fetchVars, waitVars>>

NavStep(hs, loc) == NavStepped(runHandlers(hs, StepState, loc), loc)

NavPush == \E loc \in Addresses : NavStep(handlersOf(pushState, origPushOf), loc)

NavReplace == \E loc \in Addresses : NavStep(handlersOf(replaceState, origReplaceOf), loc)

NavPop == \E loc \in Addresses : NavStep(popstateListeners, loc)

NavInit ==
  /\ facade = TRUE
  /\ location \in Addresses
  /\ sidebar = FALSE
  /\ IdleDom
  /\ IdleController
  /\ IdleFetch
  /\ IdleWait
  /\ IdleParse

NavNext == NavWatch \/ NavDetach \/ NavPush \/ NavReplace \/ NavPop

SpecNav == NavInit /\ [][NavNext]_vars

(***************************************************************************)
(* One updatePanel call on its own, from any state of the panel, its        *)
(* requests answered in every way.                                          *)
(***************************************************************************)

OldBlock ==
  [of |-> [pathname |-> PageB, revisionId |-> Undefined],
   rawYaml |-> "owner: bob",
   data |-> <<[k |-> "owner", v |-> [t |-> "string", s |-> "bob"]]>>]

\* the panel before the call: absent, or mounted with an earlier block, in the
\* document or not, shown or hidden
PanelStates ==
  {NoGlobals}
    \cup {[mountTarget |-> Wrapper, root |-> TheRoot, docPanel |-> d,
           display |-> v, rendered |-> OldBlock] :
            d \in BOOLEAN, v \in {"", "none"}}

FetchTask == CHOOSE t \in BagToSet(inflight) : TRUE

FetchCalled(u) ==
  /\ Called(u)
  /\ fpc' = IF u.inflight = EmptyBag THEN "done" ELSE "awaiting"

\* updatePanel(window.location.pathname) is called
FetchCall ==
  /\ fpc = "start"
  /\ FetchCalled(updatePanelCall(Globals, EmptyBag, location.pathname, location.search))
  /\ UNCHANGED <<parseVars, facade, location, sidebar, monitorVars, microtasks, lastActed,
                 phase, ev, fresp, fout, waitVars>>

\* the requests of fetchPageFrontmatter are answered
FetchRespond ==
  /\ fpc = "awaiting"
  /\ \E r1 \in ResponsesFor(FetchTask.revisionId),
        r2 \in ResponsesFor(FetchTask.revisionId) :
       /\ fresp' = <<r1, r2>>
       /\ fout' = fetchPageFrontmatter(FetchTask.pathname, FetchTask.revisionId,
                                       <<r1, r2>>)
  /\ fpc' = "settled"
  /\ UNCHANGED <<parseVars, facade, location, sidebar, domVars, monitorVars, microtasks,
                 inflight, lastActed, phase, ev, waitVars>>

\* updatePanel runs on from its await to its end
FetchResume ==
  /\ fpc = "settled"
  /\ SetGlobals(updatePanelResume(Globals, sidebar, fout, FetchTask))
  /\ fpc' = "done"
  /\ UNCHANGED <<parseVars, facade, location, sidebar, monitorVars, microtasks, inflight,
                 lastActed, phase, ev, fresp, fout, waitVars>>

FetchInit ==
  /\ facade = TRUE
  /\ location \in ShapeAddresses
  /\ sidebar \in BOOLEAN
  /\ \E g \in PanelStates :
       /\ docPanel = g.docPanel
       /\ mountTarget = g.mountTarget
       /\ display = g.display
       /\ root = g.root
       /\ rendered = g.rendered
  /\ IdleController
  /\ fpc = "start"
  /\ fresp = <<>>
  /\ fout = NULL
  /\ IdleWait
  /\ IdleParse

FetchNext == FetchCall \/ FetchRespond \/ FetchResume

SpecFetch == FetchInit /\ [][FetchNext]_vars

(***************************************************************************)
(* One waitForPageId call on its own, the address changing under it.        *)
(***************************************************************************)

Turned(t, until, c) ==
  /\ wpc' = c.pc
  /\ polls' = IF t < until THEN polls + 1 ELSE polls
  /\ wvalue' = IF c.pc = "returned"
               THEN [value |-> c.value, timedOut |-> c.timedOut,
                     showing |-> location.pathname, at |-> t]
               ELSE wvalue
  /\ earlier' = IF c.pc = "returned" THEN earlier
                ELSE earlier \cup {location.pathname}

\* the loop of waitForPageId takes a turn at time t
WaitTurn(t, until) == Turned(t, until, waitForPageIdCheck(t, until, location.pathname))

\* waitForPageId() is called, line 120: the deadline is set and the loop
\* takes its first turn
WaitCall ==
  /\ wpc = "idle"
  /\ deadline' = now + maxWaitMs
  /\ WaitTurn(now, now + maxWaitMs)
  /\ UNCHANGED <<parseVars, facade, location, sidebar, domVars, monitorVars, microtasks,
                 inflight, lastActed, phase, ev, fetchVars, now>>

\* the timer of line 127 fires, pollMs or somewhat more after it was set,
\* and the loop takes its next turn
WaitTimer ==
  /\ wpc = "sleeping"
  /\ \E late \in 0..MaxJitterMs :
       /\ now' = now + pollMs + late
       /\ WaitTurn(now + pollMs + late, deadline)
  /\ UNCHANGED <<parseVars, facade, location, sidebar, domVars, monitorVars, microtasks,
                 inflight, lastActed, phase, ev, fetchVars, deadline>>

\* the host changes the address while the call sleeps
WaitNavigate ==
  /\ wpc = "sleeping"
  /\ \E loc \in Addresses : location' = loc
  /\ UNCHANGED <<parseVars, facade, sidebar, domVars, monitorVars, microtasks, inflight,
                 lastActed, phase, ev, fetchVars, waitVars>>

WaitInit ==
  /\ facade = TRUE
  /\ location \in Addresses
  /\ sidebar = FALSE
  /\ IdleDom
  /\ IdleController
  /\ IdleFetch
  /\ IdleWait
  /\ IdleParse

WaitNext == WaitCall \/ WaitTimer \/ WaitNavigate

SpecWait == WaitInit /\ [][WaitNext]_vars

\* a timer that was set fires
SpecWaitFair == SpecWait /\ WF_vars(WaitTimer)

(***************************************************************************)
(* The parser on its own: extractFrontmatter and parseSimpleYaml handed a   *)
(* text, the loops of parseYamlBlock taken one turn at a time.              *)
(***************************************************************************)

MaxLines == 3
MaxKeys == 3
MaxDocLines == 4

\* the sequences over S of length up to n
SeqsUpTo(S, n) == UNION {[1..k -> S] : k \in 0..n}

\* ls.join(sep)
RECURSIVE join(_, _)
join(ls, sep) ==
  IF ls = <<>> THEN ""
  ELSE IF Len(ls) = 1 THEN ls[1]
  ELSE ls[1] \o sep \o join(Tail(ls), sep)

\* lines of a block: entries with and without a value at three depths, list
\* items, blank lines, comments, and a line without a colon
StructLines ==
  {"a: 1", "b:", "  c: x", "  m:", "  - y", "", "# n", "  # n", "    d: e",
   "junk", "- z"}

YamlTexts == {join(ls, "\n") : ls \in SeqsUpTo(StructLines, MaxLines)}

ScenarioA == "title: Hello\ntags: [a, b]\nmeta:\n  draft: true"

\* raw values of one entry
ScalarTokens ==
  {"true", "false", "null", "~", "42", "-7", "3.14", "007", "-0", "1.", ".5",
   "-", "1.2.3", "\"true\"", "'false'", "'null'", "\"42\"", "\"it's\"",
   "\"a\" b", "\"a'", "\"", "'", "''", "hello", "True", "a b", "a: b", "[a", "a]"}

ScalarTexts == {"k: " \o v : v \in ScalarTokens}

\* key names, array indices among them
KeyNames == {"b", "a", "2", "1", "10", "01"}

KeyTexts ==
  {join([n \in 1..Len(ks) |-> ks[n] \o ": v" \o ToString(n)], "\n") :
     ks \in SeqsUpTo(KeyNames, MaxKeys)}

\* bracketed raw values of one entry
InlineValues ==
  {"[a, b]", "[]", "[ a ,b ]", "[a,]", "['a', \"b\"]", "[true, 1, null]",
   "['a, b']", "[it's]", "['a]", "[a\"]", "[\"a']", "['']", "[\"]", "[[a]]"}

InlineTexts == {"tags: " \o v : v \in InlineValues}

\* block lists: quoted items, items at more than one depth, a comment and an
\* entry between items, a blank line between items, and what follows a list
ListTexts ==
  {"k:\n  - 'a'\n  - \"b\"\n  - c d", "k:\n  - \"a\n  - b'\n  - 'c\"",
   "k:\n  - a\n    - b\n  - c", "k:\n  - a\n  # n\n  - b", "k:\n  - a\n  x: 1\n  - b",
   "k:\n  - a\n\n  - b\nz: 1", "k:\n  - a\n - b\nz: 1", "k:\n\n  - true\n  - 1\n  -\n  - ~",
   "k:\n  m:\n    - a\n    - b\n  n: 1\nz: 2"}

DocLines == {"---", "----", "a: 1", "", "text"}

\* documents with either line ending, and the documents of the fetcher
Docs ==
  {join(ls, sep) : ls \in SeqsUpTo(DocLines, MaxDocLines), sep \in {"\n", "\r\n"}}
    \cup {DocHello, DocOwner, DocNoKeys, DocPlain}

\* The text form of a Mapping in the dialect, as the specification's data
\* model and parsing rules give it: one entry per line in the order of the
\* Mapping, "key: scalar", a list as a block of "- item" lines and a nested
\* Mapping as a block of entries, each two spaces deeper than its key.

\* the token of a number: sign, integer digits, fraction digits
numeral(v) ==
  (IF v.neg THEN "-" ELSE "") \o v.int \o (IF v.frac = "" THEN "" ELSE "." \o v.frac)

\* a string is written as it is when it reads back as itself, and in one
\* layer of double quotes otherwise
renderString(s) ==
  IF \/ s \in {"", "true", "false", "null", "~"} \/ IsNumberToken(s)
     \/ trim(s) # s \/ IsQuote(Head(s)) \/ IsQuote(charAt(s, Len(s) - 1))
     \/ Head(s) \in {"[", "#", "-"}
  THEN "\"" \o s \o "\"" ELSE s

renderScalar(v) ==
  CASE v.t = "string" -> renderString(v.s)
    [] v.t = "number" -> numeral(v)
    [] v.t = "boolean" -> IF v.b THEN "true" ELSE "false"
    [] OTHER -> "null"

RECURSIVE renderEntries(_, _)

\* the entry of key with value v, pad the indentation of the block
renderEntry(key, v, pad) ==
  CASE v.t = "list" ->
         join(<<pad \o key \o ":">>
                \o [n \in 1..Len(v.items) |-> pad \o "  - " \o renderString(v.items[n])],
              "\n")
    [] v.t = "object" -> pad \o key \o ":\n" \o renderEntries(v.entries, pad \o "  ")
    [] OTHER -> pad \o key \o ": " \o renderScalar(v)

renderEntries(entries, pad) ==
  join([n \in 1..Len(entries) |-> renderEntry(entries[n].k, entries[n].v, pad)], "\n")

\* values of the data model: strings, among them one that reads as a keyword,
\* a number, a boolean, null, a list of strings, Mappings nested once and twice
RoundTripValues ==
  {JsString("Hello"), JsString("true"), Number("42"), JsBool(FALSE), NULL,
   JsList(<<"a", "b c">>),
   JsObject(<<[k |-> "draft", v |-> JsBool(TRUE)]>>),
   JsObject(<<[k |-> "m", v |-> JsObject(<<[k |-> "d", v |-> Number("-3.5")]>>)],
              [k |-> "n", v |-> JsString("x y")]>>)}

RoundTripKeys == {"b", "a", "1"}

\* the Mappings of up to MaxKeys entries with these values under keys that
\* differ, in every order of the keys
RoundTripMappings ==
  {[n \in 1..Len(ks) |-> [k |-> ks[n], v |-> vs[n]]] :
     <<ks, vs>> \in
       {kv \in SeqsUpTo(RoundTripKeys, MaxKeys) \X SeqsUpTo(RoundTripValues, MaxKeys) :
          /\ Len(kv[1]) = Len(kv[2]) /\ Len(kv[1]) > 0
          /\ \A a, b \in 1..Len(kv[1]) : kv[1][a] = kv[1][b] => a = b}}

\* the texts parseSimpleYaml is given, the documents extractFrontmatter is
\* given, and the Mappings that are rendered and parsed again
ParserInputs ==
  {[kind |-> "yaml", text |-> t] :
     t \in YamlTexts \cup {ScenarioA} \cup ScalarTexts \cup KeyTexts
             \cup InlineTexts \cup ListTexts}
    \cup {[kind |-> "markdown", text |-> d] : d \in Docs}
    \cup {[kind |-> "rendered", text |-> renderEntries(m, ""), mapping |-> m] :
            m \in RoundTripMappings}

\* a parseYamlBlock(lines, startIdx, baseIndent) call under way: result so
\* far, and the key of the caller that takes what it returns
Frame(startIdx, baseIndent, key) ==
  [startIdx |-> startIdx, baseIndent |-> baseIndent, result |-> <<>>, key |-> key]

\* what one turn of the while loop of lines 64-135 does: result and i after
\* it, and for an entry without a value what it goes on to with its child
Turn(kind, result, i, key, childIndent) ==
  [kind |-> kind, result |-> result, i |-> i, key |-> key, childIndent |-> childIndent]

\* childTurn with < for the <= of line 106: a line as deep as the key is
\* taken for its child
childTurn_sameDepth(lines, baseIndent, result, key, j, childIndent) ==
  IF j >= Len(lines) \/ childIndent < baseIndent
  THEN Turn("null", setKey(result, key, NULL), j, key, childIndent)
  ELSE IF startsWith(trim(lines[j + 1]), "- ")
  THEN Turn("list", result, j, key, childIndent)
  ELSE Turn("call", result, j, key, childIndent)

\* lines 102-133: the value is empty and the next line that is not blank is j
childTurn(lines, baseIndent, result, key, j, childIndent) ==
  IF j >= Len(lines) \/ childIndent <= baseIndent
  THEN Turn("null", setKey(result, key, NULL), j, key, childIndent)
  ELSE IF startsWith(trim(lines[j + 1]), "- ")
  THEN Turn("list", result, j, key, childIndent)
  ELSE Turn("call", result, j, key, childIndent)

\* lines 84-134: the entry key: rawValue at line i
entryTurn(lines, i, baseIndent, result, key, rawValue, j) ==
  IF rawValue # ""
  THEN Turn("value",
            setKey(result, key,
                   IF startsWith(rawValue, "[") /\ endsWith(rawValue, "]")
                   THEN JsList(inlineList(rawValue))
                   ELSE parseScalar(rawValue)),
            i + 1, key, 0)
  ELSE childTurn(lines, baseIndent, result, key, j,
                 IF j >= Len(lines) THEN 0 ELSE getIndent(lines[j + 1]))

\* lineTurn without the i++ of line 76: a line deeper than the block is
\* looked at again
lineTurn_deeperKept(lines, i, baseIndent, result, trimmed, colonIdx) ==
  IF trimmed = "" \/ startsWith(trimmed, "#") THEN Turn("skip", result, i + 1, "", 0)
  ELSE IF getIndent(lines[i + 1]) > baseIndent THEN Turn("skip", result, i, "", 0)
  ELSE IF colonIdx = -1 THEN Turn("skip", result, i + 1, "", 0)
  ELSE entryTurn(lines, i, baseIndent, result, trim(slice(trimmed, 0, colonIdx)),
                 trim(slice(trimmed, colonIdx + 1, Len(trimmed))),
                 skipBlank(lines, i + 1))

\* lines 65-82: the line i, which does not end the block
lineTurn(lines, i, baseIndent, result, trimmed, colonIdx) ==
  IF trimmed = "" \/ startsWith(trimmed, "#") THEN Turn("skip", result, i + 1, "", 0)
  ELSE IF getIndent(lines[i + 1]) > baseIndent THEN Turn("skip", result, i + 1, "", 0)
  ELSE IF colonIdx = -1 THEN Turn("skip", result, i + 1, "", 0)
  ELSE entryTurn(lines, i, baseIndent, result, trim(slice(trimmed, 0, colonIdx)),
                 trim(slice(trimmed, colonIdx + 1, Len(trimmed))),
                 skipBlank(lines, i + 1))

\* the while loop of lines 64-135 ends at i: no line is left, or line 74 breaks
blockEnds(lines, i, baseIndent) ==
  IF i >= Len(lines) THEN TRUE
  ELSE /\ trim(lines[i + 1]) # ""
       /\ ~startsWith(trim(lines[i + 1]), "#")
       /\ getIndent(lines[i + 1]) < baseIndent

\* the while loop of lines 115-126 ends at i
listEnds(lines, i, childIndent) ==
  IF i >= Len(lines) THEN TRUE
  ELSE /\ trim(lines[i + 1]) # ""
       /\ \/ getIndent(lines[i + 1]) < childIndent
          \/ ~startsWith(trim(lines[i + 1]), "- ")

\* line 121: the item of the list line lt
listItem(lt) == stripQuotes(trim(slice(lt, 2, Len(lt))))

ParseTop == pstack[Len(pstack)]

\* parseYamlBlock(lines, 0, 0) is called on the lines of the text
ParseStarted(text) ==
  /\ plines' = split(text, "\n")
  /\ pi' = 0
  /\ pstack' = <<Frame(0, 0, "")>>
  /\ ppc' = "loop"

\* parseSimpleYaml(yaml), line 44
ParseSimpleYaml ==
  /\ ppc = "start" /\ pin.kind \in {"yaml", "rendered"}
  /\ ParseStarted(pin.text)
  /\ UNCHANGED <<pin, prawYaml, plist, pout, hostVars>>

\* extractFrontmatter(markdown) up to its call of parseSimpleYaml, lines 23-27
Extracted(markdown, open, close) ==
  IF open = -1 \/ close = -1
  THEN /\ ppc' = "returned"
       /\ pout' = NULL
       /\ UNCHANGED <<prawYaml, plines, pi, pstack>>
  ELSE /\ prawYaml' = trim(slice(markdown, open, close))
       /\ ParseStarted(trim(slice(markdown, open, close)))
       /\ pout' = pout

ExtractFrontmatter ==
  /\ ppc = "start" /\ pin.kind = "markdown"
  /\ Extracted(pin.text, opensWith(pin.text),
               IF opensWith(pin.text) = -1 THEN -1
               ELSE firstClose(pin.text, opensWith(pin.text)))
  /\ UNCHANGED <<pin, plist, hostVars>>

\* the turn t was taken by the innermost call
TurnTaken(t) ==
  /\ pi' = t.i
  /\ IF t.kind = "call"
     THEN pstack' = Append([pstack EXCEPT ![Len(pstack)].result = t.result],
                           Frame(t.i, t.childIndent, t.key))
     ELSE pstack' = [pstack EXCEPT ![Len(pstack)].result = t.result]
  /\ IF t.kind = "list"
     THEN /\ ppc' = "list"
          /\ plist' = [key |-> t.key, childIndent |-> t.childIndent,
                       startIdx |-> t.i, items |-> <<>>]
     ELSE UNCHANGED <<ppc, plist>>

\* one turn of the while loop of lines 64-135 in the innermost call
ParseLine ==
  /\ ppc = "loop"
  /\ ~blockEnds(plines, pi, ParseTop.baseIndent)
  /\ TurnTaken(lineTurn(plines, pi, ParseTop.baseIndent, ParseTop.result,
                      trim(plines[pi + 1]), indexOf(trim(plines[pi + 1]), ":")))
  /\ UNCHANGED <<pin, prawYaml, plines, pout, hostVars>>

\* what the outermost call returned goes to the caller of parseSimpleYaml
Returned(result) ==
  /\ ppc' = "returned"
  /\ pout' = IF pin.kind = "markdown"
             THEN [t |-> "parsed", rawYaml |-> prawYaml, data |-> result]
             ELSE JsObject(result)
  /\ pstack' = <<>>

\* the loop of the innermost call ends and it returns [result, i], line 137;
\* a nested call returns to lines 130-132 of its caller
ParseReturn ==
  /\ ppc = "loop"
  /\ blockEnds(plines, pi, ParseTop.baseIndent)
  /\ IF Len(pstack) = 1
     THEN Returned(ParseTop.result)
     ELSE /\ pstack' = [SubSeq(pstack, 1, Len(pstack) - 1)
                          EXCEPT ![Len(pstack) - 1].result =
                            setKey(@, ParseTop.key, JsObject(ParseTop.result))]
          /\ UNCHANGED <<ppc, pout>>
  /\ UNCHANGED <<pin, prawYaml, plines, pi, plist, hostVars>>

\* one turn of the while loop of lines 115-126
ParseListLine ==
  /\ ppc = "list"
  /\ ~listEnds(plines, pi, plist.childIndent)
  /\ pi' = pi + 1
  /\ plist' = IF trim(plines[pi + 1]) = "" THEN plist
              ELSE [plist EXCEPT !.items = Append(@, listItem(trim(plines[pi + 1])))]
  /\ UNCHANGED <<pin, ppc, prawYaml, plines, pstack, pout, hostVars>>

\* the loop of lines 115-126 ends: result[key] = list, line 127
ParseListEnd ==
  /\ ppc = "list"
  /\ listEnds(plines, pi, plist.childIndent)
  /\ pstack' = [pstack EXCEPT ![Len(pstack)].result =
                  setKey(@, plist.key, JsList(plist.items))]
  /\ ppc' = "loop"
  /\ UNCHANGED <<pin, prawYaml, plines, pi, plist, pout, hostVars>>

ParseInit ==
  /\ facade = TRUE
  /\ location = [pathname |-> PageA, search |-> ""]
  /\ sidebar = FALSE
  /\ IdleDom
  /\ IdleController
  /\ IdleFetch
  /\ IdleWait
  /\ pin \in ParserInputs
  /\ ppc = "start"
  /\ prawYaml = ""
  /\ plines = <<>>
  /\ pi = 0
  /\ pstack = <<>>
  /\ plist = [key |-> "", childIndent |-> 0, startIdx |-> 0, items |-> <<>>]
  /\ pout = NULL

ParseNext ==
  \/ ParseSimpleYaml
  \/ ExtractFrontmatter
  \/ ParseLine
  \/ ParseReturn
  \/ ParseListLine
  \/ ParseListEnd

SpecParse == ParseInit /\ [][ParseNext]_vars

(***************************************************************************)
(* Properties of the controller in its host, under Spec.                   *)
(***************************************************************************)

Canonical(loc) == loc \in Addresses /\ IsPageId(loc.pathname)

\* C1: once a navigation to a canonical address has been acted on, the only
\* block the panel renders is one produced by the fetch for that address: a
\* fetch started for an earlier address that completes with data is discarded.
C1_StaleDiscarded ==
  [][(phase = "started" /\ Canonical(lastActed)
        /\ rendered' # rendered /\ rendered' # NULL)
       => rendered'.of.pathname = lastActed.pathname]_vars

\* C2: after deactivate has run, nothing that was in flight and completes
\* later creates a mount element or a React root or renders anything.
C2_StoppedStaysIdle ==
  phase = "stopped"
    => mountTarget = NULL /\ root = NULL /\ rendered = NULL /\ ~docPanel

\* C3: no fetch and no stabilization wait is ever under way for a path that is
\* not of the canonical shape, and a step that acts on a navigation to such a
\* path (or activate evaluating one) starts neither and leaves the panel hidden.
C3_NoRequestForNonCanonical ==
  /\ [](/\ \A t \in BagToSet(inflight) : PAGE_ID_PATTERN(t.pathname)
        /\ \A n \in 1..Len(microtasks) : PAGE_ID_PATTERN(microtasks[n].pathname))
  /\ [][(lastActed' # lastActed /\ ~PAGE_ID_PATTERN(lastActed'.pathname))
          => /\ inflight' = inflight
             /\ microtasks' = microtasks
             /\ ~PanelVisible']_vars

\* a panel that showed a block was hidden by a navigation to a path that is
\* not canonical, and nothing is under way
C3_Witness ==
  /\ phase = "started"
  /\ lastActed \in Addresses /\ ~IsPageId(lastActed.pathname)
  /\ mountTarget # NULL /\ docPanel /\ rendered # NULL /\ display = "none"
  /\ inflight = EmptyBag /\ microtasks = <<>>

\* C4: while the most recent navigation acted on went to a path that is not
\* canonical, the panel is not visible.
C4_HiddenNotOverridden ==
  (phase = "started" /\ lastActed \in Addresses /\ ~IsPageId(lastActed.pathname))
    => ~PanelVisible

\* the fetch of updatePanel for the address of path p whose query is q
FetchFor(p, q) == [pathname |-> p, revisionId |-> RevisionIdTable[q]]

\* the then-callback of the oldest waitForPageId() call runs
ThenRuns == microtasks # <<>> /\ microtasks' = Tail(microtasks)

\* C23: every fetch of updatePanel is for the document and the revision of
\* one address: when a then-callback of waitForPageId() runs, whatever
\* navigations came between, the revisionId of its fetch is that of the
\* query of the navigation whose path it was given; and the fetch of
\* activate is for the path and the query of the address then.
C23_SameAddress ==
  [][/\ ThenRuns
          => inflight' = inflight (+) SetToBag({FetchFor(Head(microtasks).pathname,
                                                         Head(microtasks).search)})
     /\ (phase # "started" /\ phase' = "started")
          => \A t \in BagToSet(inflight') :
               t \in BagToSet(inflight)
                 \/ t = FetchFor(location.pathname, location.search)]_vars

\* the then-callback's fetch is for the path it was given and for the
\* revision of the query the address shows when it runs
FetchReadsQueryLate ==
  [][ThenRuns
       => inflight' = inflight (+) SetToBag({FetchFor(Head(microtasks).pathname,
                                                      location.search)})]_vars

\* where the address has not changed since the navigation, C23 holds
SameAddressUnlessNavigated ==
  [][(ThenRuns /\ location = [pathname |-> Head(microtasks).pathname,
                              search |-> Head(microtasks).search])
       => inflight' = inflight (+) SetToBag({FetchFor(Head(microtasks).pathname,
                                                      Head(microtasks).search)})]_vars

(***************************************************************************)
(* Properties of the navigation monitor, under SpecNav.                    *)
(***************************************************************************)

InSeq(x, seq) == \E n \in 1..Len(seq) : seq[n] = x

\* subscription s is installed: its wrappers are in both chains and its
\* listener is registered
Installed(s) ==
  /\ InSeq(s, handlersOf(pushState, origPushOf))
  /\ InSeq(s, handlersOf(replaceState, origReplaceOf))
  /\ InSeq(s, popstateListeners)

\* C5: a pushState, replaceState or popstate invokes the callback of an
\* installed subscription exactly once when path+query differs from the value
\* the subscription last observed, and not at all when it is equal; either way
\* the stored value is path+query afterwards.
C5_ChangeDetection ==
  [][ev'.kind = "history"
       => \A s \in 1..Len(subs) :
            Installed(s)
              => /\ ev'.cb[s] = IF href(location') # subs[s].currentHref THEN 1 ELSE 0
                 /\ subs'[s].currentHref = href(location')]_vars

\* an operation changed the address and the callback ran once; another left it
\* as it was observed and the callback did not run
C5_Witness ==
  /\ ev.kind = "history"
  /\ \E s \in 1..Len(subs) : Installed(s) /\ ev.cb[s] = 1
                               /\ subs[s].currentHref = href(location)

C5_WitnessUnchanged ==
  /\ ev.kind = "history"
  /\ \E s \in 1..Len(subs) : Installed(s) /\ ev.cb[s] = 0

\* C6: once the detachment of a subscription has run, its wrappers are in
\* neither chain and its listener is gone, right after it pushState and
\* replaceState are what the subscription had replaced, and no later operation
\* invokes its callback.
C6_Detachment ==
  /\ \A s \in ev.gone :
       /\ ~InSeq(s, handlersOf(pushState, origPushOf))
       /\ ~InSeq(s, handlersOf(replaceState, origReplaceOf))
       /\ ~InSeq(s, popstateListeners)
       /\ ev.cb[s] = 0
  /\ ev.kind = "detach"
       => /\ pushState = subs[ev.sub].origPush
          /\ replaceState = subs[ev.sub].origReplace

\* after a detachment the address moved away from what the detached
\* subscription last observed
C6_Witness ==
  /\ ev.kind = "history"
  /\ \E s \in ev.gone : subs[s].currentHref # href(location)

\* the subscriptions installed
InstalledSubs == {s \in 1..Len(subs) : Installed(s)}

\* the callbacks the last operation on the address invoked
CallbacksRun == {s \in DOMAIN ev.cb : ev.cb[s] > 0}

\* at most one subscription is installed, an operation on the address invokes
\* at most one callback, once, and none when the last call was deactivate
OneSubscription ==
  /\ Cardinality(InstalledSubs) <= 1
  /\ ev.kind = "history"
       => /\ Cardinality(CallbacksRun) <= 1
          /\ \A s \in CallbacksRun : ev.cb[s] = 1
          /\ cleanupUrlWatch = NULL => CallbacksRun = {}
  /\ cleanupUrlWatch = NULL => InstalledSubs = {}

\* C24: at most one navigation subscription is installed at any time,
\* whatever the sequence of activate and deactivate calls, activate called
\* again while active included: one change of the address starts at most one
\* update, and after the last deactivate a change of the address starts none.
C24_OneSubscription == OneSubscription

\* each activate but the first came after a deactivate: every subscription
\* but the last made has been detached
Alternating == \A s \in 1..(Len(subs) - 1) : s \in ev.gone

\* the same for the sequences in which activate and deactivate alternate
OneSubscriptionWhenAlternating == Alternating => OneSubscription

\* activate ran twice and deactivate after it: the first subscription is
\* still installed, with no detachment operation left to remove it
LeakedSubscription ==
  ~(/\ Len(subs) = 2 /\ ev.gone = {2} /\ cleanupUrlWatch = NULL
    /\ InstalledSubs = {1})

(***************************************************************************)
(* Properties of waitForPageId, under SpecWaitFair.                        *)
(***************************************************************************)

MaxPolls == maxWaitMs \div pollMs

\* C7: waitForPageId always returns; what it returns is the path showing at
\* that moment, canonical unless the deadline had passed; no earlier turn saw
\* a canonical path; the loop tests the path at most timeout / interval times.
C7_WaitResolves ==
  /\ [](/\ polls <= MaxPolls
        /\ wpc = "sleeping" => now < deadline
        /\ wpc = "returned"
             => /\ wvalue.value = wvalue.showing
                /\ wvalue.timedOut => wvalue.at >= deadline
                /\ ~wvalue.timedOut => PAGE_ID_PATTERN(wvalue.value)
                /\ \A p \in earlier : ~PAGE_ID_PATTERN(p))
  /\ (wpc = "sleeping" ~> wpc = "returned")

\* the wait ran out after the most turns there can be, no canonical path seen
C7_Witness ==
  /\ wpc = "returned" /\ wvalue.timedOut
  /\ polls = MaxPolls
  /\ ~IsPageId(wvalue.value)

\* the wait returned a canonical path that appeared while it slept
C7_WitnessStabilized ==
  /\ wpc = "returned" /\ ~wvalue.timedOut
  /\ polls > 1
  /\ IsPageId(wvalue.value)

(***************************************************************************)
(* Properties of the fetcher and of updatePanel around it, under SpecFetch. *)
(***************************************************************************)

\* fetchPageFrontmatter has settled
Settled == fout # NULL

NormalCase == Settled /\ FetchTask.revisionId.t = "undefined"

RevisionCase == Settled /\ FetchTask.revisionId.t = "string"

\* a non-empty text
Text(v) == v.t = "string" /\ v.s # ""

\* the response is successful, declares JSON and decodes to an object
Decoded(resp) == resp.kind = "json" /\ resp.json.t = "json"

\* the n-th request of the normal case for the document of the call
PageRequest(n) ==
  <<"/_api/v3", "/api/v3">>[n] \o "/page?pageId=" \o Tail(FetchTask.pathname)

\* what the call comes to when the prefixes carry the bodies b1 and b2 (no
\* text: the prefix yields none): the first prefix with a body wins and no
\* later one is asked
FirstBodyWins(b1, b2) ==
  IF Text(b1) THEN [value |-> extractFrontmatter(b1.s), asked |-> 1]
  ELSE IF Text(b2) THEN [value |-> extractFrontmatter(b2.s), asked |-> 2]
  ELSE [value |-> NULL, asked |-> 2]

ComesTo(want) ==
  /\ fout.outcome = "resolved"
  /\ fout.value = want.value
  /\ Len(fout.requests) = want.asked

\* a body at page.revision.body or at data.page.revision.body, whichever
\* holds a non-empty text
EitherPageBody(resp) ==
  IF ~Decoded(resp) THEN Undefined
  ELSE IF Text(resp.json.page) THEN resp.json.page
  ELSE resp.json.dataPage

\* the body at page.revision.body, or the one at data.page.revision.body when
\* page.revision.body is absent
FirstPresentPageBody(resp) ==
  IF ~Decoded(resp) THEN Undefined
  ELSE IF resp.json.page.t \notin {"undefined", "null"} THEN resp.json.page
  ELSE resp.json.dataPage

FailedPrefix(resp) ==
  \/ resp.kind \in {"reject", "status", "nonjson", "badjson"}
  \/ resp.kind = "json" /\ resp.json.t = "null"
  \/ /\ Decoded(resp)
     /\ \A v \in {resp.json.page, resp.json.dataPage, resp.json.revision,
                  resp.json.dataRevision} : ~Text(v) /\ v.t \in {"undefined", "string"}

\* a failure of one of the kinds, or a response whose body fields hold text
Answer(resp) ==
  \/ FailedPrefix(resp)
  \/ /\ Decoded(resp)
     /\ \A v \in {resp.json.page, resp.json.dataPage, resp.json.revision,
                  resp.json.dataRevision} : v.t \in {"undefined", "string"}

\* C9: whatever failures the prefixes meet, in the normal and in the revision
\* case, fetchPageFrontmatter resolves and does not reject; when every prefix
\* fails it resolves with null, and updatePanel ends with the panel hidden.
C9_NoFailureEscapes ==
  /\ (Settled /\ Answer(fresp[1]) /\ Answer(fresp[2])) => fout.outcome = "resolved"
  /\ (Settled /\ FailedPrefix(fresp[1]) /\ FailedPrefix(fresp[2]))
       => /\ fout.value = NULL
          /\ Len(fout.requests) = 2
          /\ fpc = "done" => ~PanelVisible

\* the transport threw for the first prefix and decoding threw for the
\* second, in the revision case, and a panel that showed a block is hidden
C9_Witness ==
  /\ RevisionCase /\ fpc = "done"
  /\ fresp[1].kind = "reject" /\ fresp[2].kind = "badjson"
  /\ mountTarget # NULL /\ docPanel /\ rendered # NULL /\ display = "none"

\* a body at revision.body or at data.revision.body
EitherRevisionBody(resp) ==
  IF ~Decoded(resp) THEN Undefined
  ELSE IF Text(resp.json.revision) THEN resp.json.revision
  ELSE resp.json.dataRevision

\* C10: with a revision identifier, the prefixes are asked in order for the
\* revision; a non-empty body at revision.body or at data.revision.body is
\* accepted, the first prefix with one wins, and with none the result is null.
C10_RevisionEitherEnvelope ==
  (RevisionCase /\ Answer(fresp[1]) /\ Answer(fresp[2]))
    => ComesTo(FirstBodyWins(EitherRevisionBody(fresp[1]),
                             EitherRevisionBody(fresp[2])))


\* the fetch came to no metadata: no block, or a block without keys
NoMetadata ==
  /\ fout.outcome = "resolved"
  /\ fout.value = NULL \/ Len(fout.value.data) = 0

\* C17: when the fetched document has a block that parses to no key,
\* updatePanel ends as it does for a document without a block: the panel is
\* hidden, nothing is rendered and nothing else changes.
C17_ZeroKeysAsNoBlock ==
  [][(fpc = "settled" /\ fpc' = "done" /\ NoMetadata)
       => /\ display' = IF mountTarget # NULL THEN "none" ELSE display
          /\ rendered' = rendered
          /\ mountTarget' = mountTarget /\ root' = root /\ docPanel' = docPanel
          /\ ~PanelVisible']_vars

\* the document had a block without keys, and the panel that showed an
\* earlier block is hidden, the earlier block still what its root holds
C17_Witness ==
  /\ fpc = "done" /\ Settled
  /\ fout.value # NULL /\ fout.value.data = <<>>
  /\ mountTarget # NULL /\ docPanel /\ display = "none" /\ rendered = OldBlock

\* C22: when the fetch for a page path comes to no metadata (null, or a
\* block without keys), the rest of updatePanel looks for no sidebar and
\* makes no mount element and no root: a mount target that exists is hidden,
\* also one that has left the document, and root, mountTarget and what the
\* root holds stay as they were; without a mount target nothing changes,
\* sidebar or not.
C22_NoMetadataFrame ==
  [][(fpc = "settled" /\ fpc' = "done" /\ NoMetadata)
       => /\ IsPageId(FetchTask.pathname)
          /\ Globals' = IF mountTarget = NULL THEN Globals
                        ELSE [Globals EXCEPT !.display = "none"]]_vars

\* no metadata came for a page with a sidebar and no mount target, and none
\* was made
C22_Witness ==
  /\ fpc = "done" /\ Settled /\ NoMetadata
  /\ sidebar /\ mountTarget = NULL /\ root = NULL /\ ~docPanel

\* no metadata came while the mount target was out of the document: it is
\* hidden and kept, with its root
C22_WitnessDetached ==
  /\ fpc = "done" /\ Settled /\ NoMetadata
  /\ sidebar /\ mountTarget # NULL /\ root # NULL /\ ~docPanel /\ display = "none"

\* "/" and then exactly 24 hexadecimal digits of either case
CanonicalShape(p) ==
  /\ Len(p) = 25
  /\ SubSeq(p, 1, 1) = "/"
  /\ \A n \in 2..25 :
       SubSeq(p, n, n) \in {"0", "1", "2", "3", "4", "5", "6", "7", "8", "9",
                            "a", "b", "c", "d", "e", "f", "A", "B", "C", "D", "E", "F"}

\* C18: updatePanel goes on to fetch exactly for a path that is "/" and 24
\* hexadecimal digits of either case and nothing else: not for /settings,
\* /abc or a path of 23 or 25 digits; the query of the address has no part
\* in it.
C18_CanonicalShape ==
  fpc # "start"
    => /\ inflight # EmptyBag <=> CanonicalShape(location.pathname)
       /\ location.pathname \in {"/6999390af17c96c558f7d57e", "/6999390AF17C96C558F7D57F"}
            => inflight # EmptyBag
       /\ location.pathname \in {"/settings", "/abc", "/6999390af17c96c558f7d57",
                                 "/6999390af17c96c558f7d57e0"}
            => inflight = EmptyBag

\* a fetch is under way for a path of the shape whose address has a query
C18_Witness ==
  /\ fpc = "awaiting" /\ inflight # EmptyBag
  /\ location.pathname = "/6999390af17c96c558f7d57e" /\ location.search # ""

\* no fetch was started for a path of 25 digits, nor for a path that misses
\* the shape under a query that holds a path of the shape
C18_WitnessOdd ==
  /\ fpc = "done" /\ inflight = EmptyBag
  /\ location.pathname = "/abc" /\ location.search = "?from=/6999390af17c96c558f7d57e"

(***************************************************************************)
(* The waits the navigation callback starts, under Spec.                   *)
(***************************************************************************)

\* the handlers a history operation or a popstate event can run
HandlerLists ==
  {handlersOf(pushState, origPushOf), handlersOf(replaceState, origReplaceOf),
   popstateListeners}

\* the then-callbacks st has that were not there before, all for the path p
NewThensFor(st, p) ==
  /\ Len(st.microtasks) >= Len(microtasks)
  /\ SubSeq(st.microtasks, 1, Len(microtasks)) = microtasks
  /\ \A n \in (Len(microtasks) + 1)..Len(st.microtasks) : st.microtasks[n].pathname = p

\* the callbacks run for the address loc left the state st: no wait sleeps,
\* a wait was called only for a path of the shape, and every wait returned
\* the path of loc
WaitsReturnAtOnce(st, loc) ==
  /\ ~st.polling
  /\ st.waited => CanonicalShape(loc.pathname)
  /\ NewThensFor(st, loc.pathname)
  /\ st.waited => Len(st.microtasks) > Len(microtasks)

StepwiseAgrees ==
  ppc = "returned"
    => IF pin.kind = "markdown" THEN pout = extractFrontmatter(pin.text)
       ELSE pout = JsObject(parseSimpleYaml(pin.text))

\* grows with every turn of a loop, every call and every return
Measure ==
  IF ppc = "start" THEN -1
  ELSE 3 * pi - Len(pstack) + (IF ppc = "list" THEN 0 ELSE 1)

\* the step is a turn of a loop that does not leave it
LoopTurn ==
  /\ ppc \in {"loop", "list"}
  /\ ppc' # "returned"
  /\ Len(pstack') >= Len(pstack)
  /\ ~(ppc = "list" /\ ppc' = "loop")

\* the parser has returned or can take a step that changes its state: the
\* text is handed over, a loop ends, or its next turn moves the line index
CanStep ==
  CASE ppc = "start" -> pin.kind \in {"yaml", "markdown", "rendered"}
    [] ppc = "list" -> listEnds(plines, pi, plist.childIndent) \/ pi < Len(plines)
    [] ppc = "loop" ->
         \/ blockEnds(plines, pi, ParseTop.baseIndent)
         \/ lineTurn(plines, pi, ParseTop.baseIndent, ParseTop.result,
                     trim(plines[pi + 1]), indexOf(trim(plines[pi + 1]), ":")).i > pi
    [] OTHER -> ppc = "returned"

\* C11: parseYamlBlock terminates on every sequence of lines: while it has
\* not returned it can take a step that changes its state, and every step
\* raises a measure bounded by the number of lines; every turn of a loop that
\* does not leave it advances the line index by at least one, as does every
\* nested call before it returns; the index a call returns lies between its
\* start index and the number of lines.
C11_Terminates ==
  /\ [](/\ CanStep
        /\ Measure <= 3 * Len(plines) + 1
        /\ \A n \in 1..Len(pstack) :
             pstack[n].startIdx <= pi /\ pi <= Len(plines)
        /\ (ppc = "loop" /\ Len(pstack) >= 2
              /\ blockEnds(plines, pi, ParseTop.baseIndent))
             => pi >= ParseTop.startIdx + 1)
  /\ [][/\ Measure' > Measure
        /\ LoopTurn => pi' >= pi + 1]_parseVars

\* a nested call returns at a line that is shallower than its block and
\* deeper than its caller's: indentation that fits no block
C11_Witness ==
  /\ ppc = "loop" /\ Len(pstack) = 2
  /\ pi < Len(plines)
  /\ blockEnds(plines, pi, ParseTop.baseIndent)
  /\ getIndent(plines[pi + 1]) > pstack[1].baseIndent
  /\ pi >= ParseTop.startIdx + 1

\* the lines with the line c put in after the first p of them
insertLine(lines, p, c) == SubSeq(lines, 1, p) \o <<c>> \o SubSeq(lines, p + 1, Len(lines))

\* a blank line, a line of spaces, and comments at two indentations
InsertedLines == {"", "  ", "# note", "  # note"}

\* C12: a blank line or a comment line put in at any position of a block,
\* between a key and its child block and between the items of a block list
\* included, leaves the parsed Mapping as it was.
C12_CommentBlankInvariance ==
  (ppc = "returned" /\ pin.kind = "yaml")
    => \A p \in 0..Len(plines), c \in InsertedLines :
         parseYamlBlock(insertLine(plines, p, c), 0, 0).result = pout.entries

\* the same for blank lines alone
BlankInvariance ==
  (ppc = "returned" /\ pin.kind = "yaml")
    => \A p \in 0..Len(plines), c \in {"", "  "} :
         parseYamlBlock(insertLine(plines, p, c), 0, 0).result = pout.entries

\* the line without the carriage return that ends it
withoutCR(line) == IF endsWith(line, "\r") THEN slice(line, 0, Len(line) - 1) ELSE line

\* the line consists of the three-character marker
IsMarkerLine(line) == withoutCR(line) = "---"

\* the closing marker lines after the first line
ClosingLines(ls) == {n \in 2..Len(ls) : IsMarkerLine(ls[n])}

FirstClosing(ls) == CHOOSE n \in ClosingLines(ls) : \A m \in ClosingLines(ls) : n <= m

\* the text between the opening line and the first closing marker line, trimmed
Enclosed(ls) == trim(join(SubSeq(ls, 2, FirstClosing(ls) - 1), "\n"))

\* what the extractor is to return for the document of the lines ls
ExpectedFrontmatter(ls) ==
  IF ~IsMarkerLine(ls[1]) \/ ClosingLines(ls) = {} THEN NULL
  ELSE [t |-> "parsed", rawYaml |-> Enclosed(ls), data |-> parseSimpleYaml(Enclosed(ls))]

\* C13: extractFrontmatter returns null exactly when the first line of the
\* document is not the marker or no later line consists of the marker;
\* otherwise, with either line ending, it returns the trimmed text between
\* the opening line and the first closing marker line, with the Mapping
\* parsed from it.
C13_Extractor ==
  (ppc = "returned" /\ pin.kind = "markdown")
    => pout = ExpectedFrontmatter(split(pin.text, "\n"))

\* the same for documents in which every line that begins with the marker
\* consists of it and a line stands between the opening and the closing one
ExtractorOnPlainFences ==
  (ppc = "returned" /\ pin.kind = "markdown"
     /\ \A n \in 1..Len(split(pin.text, "\n")) :
          startsWith(split(pin.text, "\n")[n], "---")
            => /\ IsMarkerLine(split(pin.text, "\n")[n])
               /\ n > 1 => ~IsMarkerLine(split(pin.text, "\n")[n - 1]))
    => pout = ExpectedFrontmatter(split(pin.text, "\n"))

\* the line at index i (0-based) is blank, or a comment
IsBlankAt(i) == trim(plines[i + 1]) = ""

IsCommentAt(i) == startsWith(trim(plines[i + 1]), "#")

\* the key and the raw value of the line at index i, split at its first colon
KeyAt(i) == trim(slice(trim(plines[i + 1]), 0, indexOf(trim(plines[i + 1]), ":")))

RawValueAt(i) ==
  trim(slice(trim(plines[i + 1]), indexOf(trim(plines[i + 1]), ":") + 1,
             Len(trim(plines[i + 1]))))

\* the innermost call is at an entry of its block
AtEntry ==
  /\ ppc = "loop" /\ pi < Len(plines)
  /\ ~IsBlankAt(pi) /\ ~IsCommentAt(pi)
  /\ getIndent(plines[pi + 1]) = ParseTop.baseIndent
  /\ indexOf(trim(plines[pi + 1]), ":") # -1

\* the index of the first line from i on that is not blank, the number of
\* lines when there is none
NextNonBlank(i) ==
  CHOOSE j \in i..Len(plines) :
    /\ j = Len(plines) \/ ~IsBlankAt(j)
    /\ \A m \in i..(j - 1) : IsBlankAt(m)

\* the index of the first line from i on that is shallower than indent
\* (blank lines and comments aside), the number of lines when there is none
FirstShallower(i, indent) ==
  CHOOSE j \in i..Len(plines) :
    /\ j = Len(plines)
         \/ (~IsBlankAt(j) /\ ~IsCommentAt(j) /\ getIndent(plines[j + 1]) < indent)
    /\ \A m \in i..(j - 1) :
         IsBlankAt(m) \/ IsCommentAt(m) \/ getIndent(plines[m + 1]) >= indent

\* the value of the key in the entries
valueOf(entries, key) ==
  (CHOOSE e \in {entries[n] : n \in 1..Len(entries)} : e.k = key).v

\* the entries of the innermost call after the step
TopResult == pstack[Len(pstack)].result

\* what decides the value of the key without value at pi: the line at j
NestedValueRule(j) ==
  IF j >= Len(plines) \/ getIndent(plines[j + 1]) <= ParseTop.baseIndent
  THEN /\ ppc' = "loop" /\ pi' = j
       /\ Len(pstack') = Len(pstack)
       /\ valueOf(TopResult', KeyAt(pi)) = NULL
  ELSE IF startsWith(trim(plines[j + 1]), "- ")
  THEN ppc' = "list"
  ELSE /\ ppc' = "loop" /\ pi' = j
       /\ pstack' = Append(pstack, [startIdx |-> j, baseIndent |-> getIndent(plines[j + 1]),
                                    result |-> <<>>, key |-> KeyAt(pi)])

\* a nested call returns to its caller
NestedReturn == Len(pstack) >= 2 /\ Len(pstack') = Len(pstack) - 1

ScenarioAResult ==
  <<[k |-> "title", v |-> [t |-> "string", s |-> "Hello"]],
    [k |-> "tags", v |-> [t |-> "list", items |-> <<"a", "b">>]],
    [k |-> "meta", v |-> [t |-> "object",
                          entries |-> <<[k |-> "draft", v |-> [t |-> "boolean", b |-> TRUE]]>>]]>>

\* C14: for a key whose raw value is empty the next line that is not blank
\* decides: deeper and not list-shaped, the value is the Mapping parsed by a
\* nested call at that indentation, and the caller goes on, the line not
\* consumed, at the first line (blank lines and comments aside) shallower
\* than that indentation; not deeper, or no line left, the value is null.
\* The text of scenario A parses to {title: "Hello", tags: ["a","b"],
\* meta: {draft: true}}.
C14_NestedValues ==
  /\ []((ppc = "returned" /\ pin.kind = "yaml" /\ pin.text = ScenarioA)
          => pout = [t |-> "object", entries |-> ScenarioAResult])
  /\ [][/\ (AtEntry /\ RawValueAt(pi) = "") => NestedValueRule(NextNonBlank(pi + 1))
        /\ NestedReturn
             => /\ pi' = pi
                /\ pi = FirstShallower(ParseTop.startIdx, ParseTop.baseIndent)
                /\ valueOf(TopResult', ParseTop.key)
                     = [t |-> "object",
                        entries |-> parseYamlBlock(plines, ParseTop.startIdx,
                                                   ParseTop.baseIndent).result]]_parseVars

\* a nested call has returned its Mapping and its caller goes on at a line
\* of its own block, which the nested call left alone
C14_Witness ==
  /\ ppc = "loop" /\ Len(pstack) = 1 /\ pi < Len(plines)
  /\ AtEntry
  /\ \E n \in 1..Len(ParseTop.result) :
       /\ ParseTop.result[n].v.t = "object"
       /\ ParseTop.result[n].v.entries # <<>>

\* scenario A has been parsed
C14_WitnessScenarioA ==
  ppc = "returned" /\ pin.text = ScenarioA /\ pout.entries = ScenarioAResult

\* an optional minus, digits, and optionally a decimal point and digits
NumberShape(v) ==
  LET u == IF startsWith(v, "-") THEN slice(v, 1, Len(v)) ELSE v
  IN \/ u # "" /\ \A n \in 0..(Len(u) - 1) : IsDigit(charAt(u, n))
     \/ \E d \in 1..(Len(u) - 2) :
          /\ charAt(u, d) = "."
          /\ \A n \in (0..(Len(u) - 1)) \ {d} : IsDigit(charAt(u, n))

\* the value is wrapped in one matching pair of quotes
Wrapped(v) ==
  /\ Len(v) >= 2
  /\ charAt(v, 0) \in {"'", "\""}
  /\ charAt(v, Len(v) - 1) = charAt(v, 0)

\* the rules of scalar coercion, in order, hold of the raw value v and the
\* value x made of it
CoercionRule(v, x) ==
  IF v = "true" THEN x = [t |-> "boolean", b |-> TRUE]
  ELSE IF v = "false" THEN x = [t |-> "boolean", b |-> FALSE]
  ELSE IF v \in {"null", "~"} THEN x = NULL
  ELSE IF NumberShape(v) THEN x.t = "number"
  ELSE IF Wrapped(v) THEN x = [t |-> "string", s |-> slice(v, 1, Len(v) - 1)]
  ELSE x = [t |-> "string", s |-> v]

\* the entry at pi has a raw value that is not bracketed
AtScalar ==
  /\ AtEntry /\ RawValueAt(pi) # ""
  /\ ~(startsWith(RawValueAt(pi), "[") /\ endsWith(RawValueAt(pi), "]"))

\* C15: a raw value that is not empty and not bracketed is coerced by the
\* rules in this order: true and false give booleans; null and ~ give null; an
\* optional minus, digits and optionally a point and digits give a number; a
\* value wrapped in one matching pair of quotes gives the string inside;
\* anything else gives the raw trimmed string.
C15_ScalarCoercion ==
  [][AtScalar => CoercionRule(RawValueAt(pi), valueOf(TopResult', KeyAt(pi)))]_parseVars

\* the same for raw values other than a quote character on its own
ScalarCoercionButLoneQuote ==
  [][(AtScalar /\ RawValueAt(pi) \notin {"'", "\""})
       => CoercionRule(RawValueAt(pi), valueOf(TopResult', KeyAt(pi)))]_parseVars

\* the line at index i is an entry of the outermost block
IsTopEntry(i) ==
  /\ ~IsBlankAt(i) /\ ~IsCommentAt(i)
  /\ getIndent(plines[i + 1]) = 0
  /\ indexOf(trim(plines[i + 1]), ":") # -1

\* the keys of the entries of the outermost block from line i on, each at
\* the place of its first line, seen being the keys of the lines before
RECURSIVE KeysInLineOrder(_, _)
KeysInLineOrder(i, seen) ==
  IF i >= Len(plines) THEN <<>>
  ELSE IF IsTopEntry(i) /\ KeyAt(i) \notin seen
  THEN <<KeyAt(i)>> \o KeysInLineOrder(i + 1, seen \cup {KeyAt(i)})
  ELSE KeysInLineOrder(i + 1, seen)

\* the keys as Object.entries enumerates them
EnumeratedKeys == [n \in 1..Len(pout.entries) |-> pout.entries[n].k]

\* C16: the Mapping the parser returns has no key twice, and enumerating it
\* gives the keys in the order of the lines that first set them, whatever
\* the key names.
C16_KeysUniqueInLineOrder ==
  (ppc = "returned" /\ pin.kind = "yaml")
    => /\ \A m, n \in 1..Len(pout.entries) :
            m # n => pout.entries[m].k # pout.entries[n].k
       /\ EnumeratedKeys = KeysInLineOrder(0, {})

\* the same for blocks without a key that is an array index
KeysInLineOrderButIndices ==
  (ppc = "returned" /\ pin.kind = "yaml"
     /\ \A i \in 0..(Len(plines) - 1) : IsTopEntry(i) => ~IsArrayIndex(KeyAt(i)))
    => /\ \A m, n \in 1..Len(pout.entries) :
            m # n => pout.entries[m].k # pout.entries[n].k
       /\ EnumeratedKeys = KeysInLineOrder(0, {})

\* C19: a Mapping of scalars, lists and nested Mappings, rendered to its text
\* and parsed by parseSimpleYaml, comes back equal in keys, order of keys and
\* values.
C19_RoundTrip ==
  (ppc = "returned" /\ pin.kind = "rendered") => pout = JsObject(pin.mapping)

\* the same for the Mappings without a key that is an array index
RoundTripButIndices ==
  (/\ ppc = "returned" /\ pin.kind = "rendered"
   /\ \A n \in 1..Len(pin.mapping) : ~IsArrayIndex(pin.mapping[n].k))
    => pout = JsObject(pin.mapping)

\* and for the other Mappings the parsed Mapping has the same value under
\* each key and no other key
RoundTripButOrder ==
  (ppc = "returned" /\ pin.kind = "rendered")
    => /\ Len(pout.entries) = Len(pin.mapping)
       /\ \A n \in 1..Len(pin.mapping) :
            \E m \in 1..Len(pout.entries) : pout.entries[m] = pin.mapping[n]

\* the index of the first line from i on that is indented by less than
\* indent (blank lines aside), the number of lines when there is none
ListStops(i, indent) ==
  CHOOSE j \in i..Len(plines) :
    /\ j = Len(plines) \/ (~IsBlankAt(j) /\ getIndent(plines[j + 1]) < indent)
    /\ \A m \in i..(j - 1) : IsBlankAt(m) \/ getIndent(plines[m + 1]) >= indent

\* the index of the first line from i on that is indented by less than
\* indent or is no item (blank lines aside)
ListBreaks(i, indent) ==
  CHOOSE j \in i..Len(plines) :
    /\ j = Len(plines)
         \/ (/\ ~IsBlankAt(j)
             /\ \/ getIndent(plines[j + 1]) < indent
                \/ ~startsWith(trim(plines[j + 1]), "- "))
    /\ \A m \in i..(j - 1) :
         \/ IsBlankAt(m)
         \/ getIndent(plines[m + 1]) >= indent /\ startsWith(trim(plines[m + 1]), "- ")

\* s without one layer of quotes: the same quote at both ends
unquoted(s) ==
  IF Len(s) >= 2 /\ IsQuote(Head(s)) /\ charAt(s, Len(s) - 1) = Head(s)
  THEN slice(s, 1, Len(s) - 1) ELSE s

\* the text of the item at line i after the marker
ItemTextAt(i) == trim(slice(trim(plines[i + 1]), 2, Len(trim(plines[i + 1]))))

\* the items of the lines from i up to j, each without one layer of quotes
RECURSIVE ItemsBetween(_, _)
ItemsBetween(i, j) ==
  IF i >= j THEN <<>>
  ELSE (IF startsWith(trim(plines[i + 1]), "- ") THEN <<unquoted(ItemTextAt(i))>> ELSE <<>>)
         \o ItemsBetween(i + 1, j)

\* the same with a quote taken off each end on its own
RECURSIVE ItemsStrippedBetween(_, _)
ItemsStrippedBetween(i, j) ==
  IF i >= j THEN <<>>
  ELSE (IF startsWith(trim(plines[i + 1]), "- ") THEN <<stripQuotes(ItemTextAt(i))>> ELSE <<>>)
         \o ItemsStrippedBetween(i + 1, j)

\* the key at pi has no value and the next line that is not blank, j, is
\* deeper and begins with the marker
ListBegins(j) ==
  /\ AtEntry /\ RawValueAt(pi) = ""
  /\ j < Len(plines)
  /\ IF j < Len(plines)
     THEN /\ getIndent(plines[j + 1]) > ParseTop.baseIndent
          /\ startsWith(trim(plines[j + 1]), "- ")
     ELSE FALSE

\* the list loop begins at line j for the key at pi
ListBegun(j) ==
  /\ ppc' = "list" /\ pi' = j
  /\ plist' = [key |-> KeyAt(pi), childIndent |-> getIndent(plines[j + 1]),
               startIdx |-> j, items |-> <<>>]

\* the list loop ends at line j with the items as the value of its key
ListEnded(j, items) ==
  /\ pi = j /\ pi' = j
  /\ valueOf(TopResult', plist.key) = JsList(items)

\* C20: for a key whose raw value is empty and whose next line that is not
\* blank is deeper and begins with "- ", the value is the list of the items
\* that follow, in order, each without the marker and without one layer of
\* quotes, up to the first line indented by less than the list, which is not
\* consumed.
C20_BlockList ==
  [][/\ ListBegins(NextNonBlank(pi + 1)) => ListBegun(NextNonBlank(pi + 1))
     /\ (ppc = "list" /\ ppc' = "loop")
          => ListEnded(ListStops(plist.startIdx, plist.childIndent),
                       ItemsBetween(plist.startIdx,
                                    ListStops(plist.startIdx, plist.childIndent)))]_parseVars

\* the same with the list ending at the first line that is shallower or no
\* item, and a quote taken off each end of an item on its own
BlockListUntilNoItem ==
  [][/\ ListBegins(NextNonBlank(pi + 1)) => ListBegun(NextNonBlank(pi + 1))
     /\ (ppc = "list" /\ ppc' = "loop")
          => ListEnded(ListBreaks(plist.startIdx, plist.childIndent),
                       ItemsStrippedBetween(plist.startIdx,
                                            ListBreaks(plist.startIdx, plist.childIndent)))]_parseVars

\* where every line up to the first shallower one is an item or blank and
\* no item has a quote at one end only, the list is as C20 says
BlockListOfItemsOnly ==
  [][(/\ ppc = "list" /\ ppc' = "loop"
      /\ ListBreaks(plist.startIdx, plist.childIndent)
           = ListStops(plist.startIdx, plist.childIndent)
      /\ ItemsStrippedBetween(plist.startIdx, ListStops(plist.startIdx, plist.childIndent))
           = ItemsBetween(plist.startIdx, ListStops(plist.startIdx, plist.childIndent)))
       => ListEnded(ListStops(plist.startIdx, plist.childIndent),
                    ItemsBetween(plist.startIdx,
                                 ListStops(plist.startIdx, plist.childIndent)))]_parseVars

\* the entry at pi has a raw value that is bracketed
AtInline ==
  /\ AtEntry /\ RawValueAt(pi) # ""
  /\ startsWith(RawValueAt(pi), "[") /\ endsWith(RawValueAt(pi), "]")

\* the parts of the inside of the bracketed raw value v, trimmed
InlineParts(v) ==
  [n \in 1..Len(split(slice(v, 1, Len(v) - 1), ",")) |->
     trim(split(slice(v, 1, Len(v) - 1), ",")[n])]

\* x is the list of the parts of v, each without one layer of matching quotes
InlineRule(v, x) ==
  x = [t |-> "list", items |-> [n \in 1..Len(InlineParts(v)) |-> unquoted(InlineParts(v)[n])]]

\* no part of v has a quote at one end without the same quote at the other
QuotesMatched(v) ==
  \A n \in 1..Len(InlineParts(v)) :
    stripQuotes(InlineParts(v)[n]) = unquoted(InlineParts(v)[n])

\* C21: a raw value that is not empty and is delimited by [ and ] gives the
\* list of the parts of its inside between commas, each trimmed and without
\* one layer of matching quotes; every item is a string, and a quote without
\* its partner at the other end of the item stays.
C21_InlineList ==
  [][AtInline => InlineRule(RawValueAt(pi), valueOf(TopResult', KeyAt(pi)))]_parseVars

\* the same for the raw values whose quotes all have their partner
InlineListOfMatchedQuotes ==
  [][(AtInline /\ QuotesMatched(RawValueAt(pi)))
       => InlineRule(RawValueAt(pi), valueOf(TopResult', KeyAt(pi)))]_parseVars

\* for the others every item has lost the quote at its one end
InlineListStripsEachEnd ==
  [][AtInline
       => valueOf(TopResult', KeyAt(pi))
            = [t |-> "list",
               items |-> [n \in 1..Len(InlineParts(RawValueAt(pi))) |->
                            stripQuotes(InlineParts(RawValueAt(pi))[n])]]]_parseVars

====
